---- MODULE Spec2Model ----
(***************************************************************************)
(* A model of the inviter bot: the drip scheduler (bot.py,                 *)
(* send_static_messages) over the user registry, the content catalog and   *)
(* the delivery ledger, and the onboarding engine (start_user_onboarding,  *)
(* send_question, send_next_question and the event handlers that call      *)
(* them) over the question catalog and the onboarding state table, the     *)
(* broadcast sweep (check_scheduled_messages) and the join request         *)
(* handlers of the bot and of the admin panel.                             *)
(*                                                                         *)
(* The key space of the tables (which users, chats and broadcasts exist    *)
(* in a run) is fixed by the initial state of each specification.          *)
(*                                                                         *)
(* Time is counted in whole minutes since 00:00 UTC of day 0.  A text      *)
(* column is a sequence of one-character strings, so that parsing it is    *)
(* computed and not assumed.  SQL NULL and the empty text are both <<>>    *)
(* where the code tests the value only for truthiness.                     *)
(***************************************************************************)
EXTENDS Integers, Sequences, FiniteSets, TLC

VARIABLES
    now,                    \* the wall clock, datetime.utcnow(), in minutes
    outages,                \* scheduler outages so far (bounded)
    users,                  \* table users: user_id -> row or NoRow
    static_messages,        \* table static_messages: id -> row
    static_messages_sent,   \* table static_messages_sent: set of <<user_id, id>>
    send_ok,                \* Messenger history: successful drip sends per pair
    send_failed,            \* Messenger history: failed drip sends per pair
    failures,               \* Messenger failures so far (bounded)
    user_questions,         \* table user_questions: id -> row
    user_onboarding_state,  \* table user_onboarding_state: user_id -> row or NoRow
    user_answers,           \* table user_answers: set of rows
    join_requests,          \* table join_requests: <<user_id, chat_id>> -> row or NoRow
    auto_approve_mode,      \* settings['auto_approve_mode']
    questions_sent,         \* Messenger history: question ids sent per user, in order
    processed,              \* history: question ids send_next_question was called with
    orderly,                \* history: the user started once and answered as asked
    last_event,             \* history: the inbound event handled last
    scheduled_messages,     \* table scheduled_messages: id -> row
    broadcast_sends,        \* Messenger history: sends per broadcast id
    swept,                  \* history: what the last run of each sweep reached
    store_errors,           \* Store errors raised so far (bounded)
    admin_calls,            \* admin handlers between Messenger call and write
    sent_rows,              \* table static_messages_sent: rows per <<user_id, id>>
    viewed_calls,           \* "mark as viewed" handlers at a suspension point
    answer_rows,            \* table user_answers: the rows, in id order
    answer_calls,           \* add_user_answer calls between SELECT and write
    invite_links,           \* table invite_links: code -> row or NoRow
    invite_code,            \* column users.invite_code: user_id -> code or None
    start_calls,            \* /start handlers between the link lookup and add_user
    bulk_calls,             \* approve-all / deny-all handlers between batches
    crashes,                \* process stops so far (bounded)
    request_rows,           \* table join_requests: the rows, in id order
    request_calls,          \* add_join_request calls between SELECT and upsert
    is_new,                 \* the value add_join_request returned last
    item_media,             \* table static_messages: media_type, media_file_id and text per id
    media_log,              \* Messenger history: the calls of the last drip sweep per pair
    callback,               \* the option button sent last: its payload and what the handler decoded
    sessions,               \* table sessions: session_token -> row or NoRow
    issued,                 \* session tokens generated so far
    verified,               \* the verify_session call made last and its result
    utc_offset              \* the admin host's local time minus UTC, in minutes

drip_vars == <<now, outages, users, static_messages, static_messages_sent,
               send_ok, send_failed, failures>>

onb_vars == <<user_questions, user_onboarding_state, user_answers,
              join_requests, auto_approve_mode, questions_sent, processed,
              orderly, last_event>>

ops_vars == <<scheduled_messages, broadcast_sends, swept, store_errors,
              admin_calls, sent_rows, viewed_calls>>

request_vars == <<request_rows, request_calls, is_new>>

media_vars == <<item_media, media_log>>

callback_vars == <<callback>>

session_vars == <<sessions, issued, verified, utc_offset>>

side_vars == <<request_vars, media_vars, callback_vars, session_vars>>

aux_vars == <<crashes, side_vars>>

store_vars == <<answer_rows, answer_calls, invite_links, invite_code, start_calls,
               bulk_calls, aux_vars>>

vars == <<drip_vars, onb_vars, ops_vars, store_vars>>

\* What the operations modelled on their own tables leave alone.
core_vars == <<drip_vars, onb_vars, ops_vars, answer_rows, answer_calls,
              invite_links, invite_code, start_calls, bulk_calls, crashes>>

(***************************************************************************)
(* Bounds of the model.                                                    *)
(***************************************************************************)
MaxUsers == 1
MaxItems == 2
HorizonDays == 3
MaxFailures == 1
MaxOutages == 1
MaxIdleTicks == 240
MaxQuestions == 3
MaxChats == 1
MaxDispatches == 4
MaxStoreErrors == 1
MaxBroadcasts == 2
MaxRegistry == 101
MaxJoinUsers == 2
MaxJoinChats == 2
MaxAdminCalls == 2
MaxRespondents == 1
MaxViewedCalls == 2
MaxAnswerCalls == 2
MaxAnswerRows == 3
MaxStartCalls == 2
MaxPending == 202
MaxJoinDispatches == 2
MaxArrivals == 2
MaxSweepUsers == 2
MaxCrashes == 1
MaxRequestCalls == 2
MaxOptionLen == 3
MaxSessions == 2

UserIds == 1..MaxUsers
ItemIds == 1..MaxItems
QuestionIds == 1..MaxQuestions
ChatIds == 1..MaxChats
BroadcastIds == 1..MaxBroadcasts
RegistryIds == 1..MaxRegistry
SweepUsers == 1..MaxSweepUsers
JoinUsers == 1..MaxJoinUsers
JoinChats == 1..MaxJoinChats
Respondents == 1..MaxRespondents
NoRow == [absent |-> TRUE]
\* Python's None where the code tells it from 0.
None == 0 - 1

MinutesPerDay == 1440
SESSION_EXPIRY_HOURS == 24
DefaultSendHour == 9
DefaultSendMinute == 0
SendWindowMinutes == 5
GetUsersLimit == 100

(***************************************************************************)
(* Text helpers: str.split(sep) and int(str) as Python computes them.      *)
(***************************************************************************)
Digits == <<"0", "1", "2", "3", "4", "5", "6", "7", "8", "9">>

IsDigit(c) == \E i \in 1..10 : Digits[i] = c

DigitValue(c) == (CHOOSE i \in 1..10 : Digits[i] = c) - 1

RECURSIVE SplitFrom(_, _, _)
\* str.split(sep) continued: cur is the piece being read.
SplitFrom(s, sep, cur) ==
    IF s = <<>> THEN <<cur>>
    ELSE IF Head(s) = sep THEN <<cur>> \o SplitFrom(Tail(s), sep, <<>>)
    ELSE SplitFrom(Tail(s), sep, Append(cur, Head(s)))

Split(s, sep) == SplitFrom(s, sep, <<>>)

RECURSIVE StripLeft(_)
StripLeft(s) == IF s # <<>> /\ Head(s) = " " THEN StripLeft(Tail(s)) ELSE s

RECURSIVE StripRight(_)
StripRight(s) ==
    IF s # <<>> /\ s[Len(s)] = " " THEN StripRight(SubSeq(s, 1, Len(s) - 1)) ELSE s

Strip(s) == StripRight(StripLeft(s))

\* The digits of an int() literal after the optional sign.
Unsigned(s) == IF s # <<>> /\ Head(s) \in {"+", "-"} THEN Tail(s) ELSE s

\* int(s) does not raise ValueError.
IsIntLiteral(s) ==
    LET d == Unsigned(Strip(s))
    IN  d # <<>> /\ \A i \in 1..Len(d) : IsDigit(d[i])

RECURSIVE DigitsValue(_)
DigitsValue(d) ==
    IF d = <<>> THEN 0
    ELSE 10 * DigitsValue(SubSeq(d, 1, Len(d) - 1)) + DigitValue(d[Len(d)])

IntValue(s) ==
    LET t == Strip(s)
        v == DigitsValue(Unsigned(t))
    IN  IF Head(t) = "-" THEN 0 - v ELSE v

(***************************************************************************)
(* The content catalog rows the model draws from.                          *)
(***************************************************************************)
T0900 == <<"0", "9", ":", "0", "0">>
T1430 == <<"1", "4", ":", "3", "0">>
T2599 == <<"2", "5", ":", "9", "9">>

ItemChoices ==
    { [day_number |-> 0, send_time |-> <<>>,  additional_minutes |-> 0, is_active |-> 1],
      [day_number |-> 0, send_time |-> <<>>,  additional_minutes |-> 5, is_active |-> 1],
      [day_number |-> 1, send_time |-> T0900, additional_minutes |-> 0, is_active |-> 1],
      [day_number |-> 1, send_time |-> <<>>,  additional_minutes |-> 5, is_active |-> 1],
      [day_number |-> 1, send_time |-> T1430, additional_minutes |-> 0, is_active |-> 0],
      [day_number |-> 1, send_time |-> T2599, additional_minutes |-> 0, is_active |-> 1] }

\* The instants at which the model lets a user arrive: 09:00 and 10:00 of day 0.
JoinInstants == {540, 600}

\* The lengths of the scheduler outages the model takes.
OutageMinutes == {6, 60}

(***************************************************************************)
(* Store operations.                                                       *)
(***************************************************************************)
\* An add_user written as INSERT OR REPLACE: the row is rewritten with the
\* column defaults.
add_user_replace(u) ==
    [users EXCEPT ![u] = [join_date |-> now, is_banned |-> 0]]

\* Database.add_user: INSERT ... ON CONFLICT(user_id) DO UPDATE of the name
\* fields and last_activity only; join_date defaults to CURRENT_TIMESTAMP.
add_user(u) ==
    IF users[u] = NoRow
    THEN [users EXCEPT ![u] = [join_date |-> now, is_banned |-> 0]]
    ELSE users

\* ORDER BY join_date DESC over a set of user ids (ties by user id): each
\* id takes the place given by the number of ids that come before it.
SortByJoinDateDesc(S) ==
    LET ranked == {<<Cardinality({v \in S :
                        \/ users[v].join_date > users[u].join_date
                        \/ users[v].join_date = users[u].join_date /\ v < u}), u>> :
                   u \in S}
    IN  [i \in 1..Cardinality(S) |-> (CHOOSE p \in ranked : p[1] = i - 1)[2]]

\* Database.get_users() with its defaults: no filter, LIMIT 100 OFFSET 0.
get_users ==
    LET all == SortByJoinDateDesc({u \in DOMAIN users : users[u] # NoRow})
    IN  SubSeq(all, 1, IF Len(all) < GetUsersLimit THEN Len(all) ELSE GetUsersLimit)


(***************************************************************************)
(* The send-window predicate of send_static_messages.                      *)
(***************************************************************************)
\* (current_time - join_date).days
days_since_join(join_date, t) == (t - join_date) \div MinutesPerDay

\* hour, minute = map(int, send_time.split(':')); dt_time(hour, minute):
\* the parse succeeds (no ValueError).
SendTimeParses(send_time) ==
    LET parts == Split(send_time, ":")
    IN  /\ Len(parts) = 2
        /\ IsIntLiteral(parts[1])
        /\ IsIntLiteral(parts[2])
        /\ IntValue(parts[1]) \in 0..23
        /\ IntValue(parts[2]) \in 0..59

\* The send_time in effect: "09:00" when the column is empty.
EffectiveSendTime(msg) ==
    IF msg.send_time = <<>>
    THEN [ok |-> TRUE, hour |-> DefaultSendHour, minute |-> DefaultSendMinute]
    ELSE IF SendTimeParses(msg.send_time)
    THEN [ok |-> TRUE,
          hour |-> IntValue(Split(msg.send_time, ":")[1]),
          minute |-> IntValue(Split(msg.send_time, ":")[2])]
    ELSE [ok |-> FALSE, hour |-> 0, minute |-> 0]

\* A day-0 trigger that forgets additional_minutes.
Day0TimeToSendNoOffset(join_date, msg) == join_date

\* time_to_send of the day-0 branch.
Day0TimeToSend(join_date, msg) == join_date + msg.additional_minutes

\* time_to_send of the day-1+ branch; st is the parsed send_time.
DayNTimeToSend(join_date, msg, st, days) ==
    (join_date \div MinutesPerDay + days) * MinutesPerDay
        + st.hour * 60 + st.minute + msg.additional_minutes

\* A day-1+ window twice as long.
WindowEndWide(time_to_send) == time_to_send + 2 * SendWindowMinutes

\* The upper end of the day-1+ window.
WindowEnd(time_to_send) == time_to_send + SendWindowMinutes

\* should_send at instant t; st is the parsed send_time of msg.
should_send(join_date, msg, st, t) ==
    LET days == days_since_join(join_date, t)
    IN  IF days = 0
        THEN t >= Day0TimeToSend(join_date, msg)
        ELSE /\ st.ok
             /\ DayNTimeToSend(join_date, msg, st, days) <= t
             /\ t < WindowEnd(DayNTimeToSend(join_date, msg, st, days))

\* The send_time of every catalog row, parsed as the sweep parses it.
ParsedSendTimes == [m \in ItemIds |-> EffectiveSendTime(static_messages[m])]

\* The users one sweep iterates over.
FetchedUsers == LET f == get_users IN {f[i] : i \in 1..Len(f)}

\* The pairs for which a sweep at instant t reaches the send, given the rows
\* it fetched, the parsed send times and the ledger: the user is not banned,
\* the item is active and of today's day number, no DeliveryRecord exists
\* and should_send holds.
DuePairsOf(fetched, st, sent, t) ==
    { p \in fetched \X ItemIds :
        /\ users[p[1]].is_banned = 0
        /\ static_messages[p[2]].is_active # 0
        /\ static_messages[p[2]].day_number
              = days_since_join(users[p[1]].join_date, t)
        /\ <<p[1], p[2]>> \notin sent
        /\ should_send(users[p[1]].join_date, static_messages[p[2]], st[p[2]], t) }

DuePairs(t) == DuePairsOf(FetchedUsers, ParsedSendTimes, static_messages_sent, t)

\* The send-window predicate of a registered user and an item at instant t.
SendWindow(u, m, t) ==
    /\ static_messages[m].day_number = days_since_join(users[u].join_date, t)
    /\ should_send(users[u].join_date, static_messages[m],
                   EffectiveSendTime(static_messages[m]), t)

(***************************************************************************)
(* Actions of the drip scheduler.                                          *)
(***************************************************************************)
Horizon == HorizonDays * MinutesPerDay

\* The minute of the next tick that is kept as a step of its own: the first
\* minute after t at which the sweep has a due pair among open, a user may arrive, or
\* MaxIdleTicks minutes have passed.  The ticks of the minutes before it
\* find nothing due and change nothing.
NextTick(open, st, t) ==
    LET last == IF t + MaxIdleTicks < Horizon THEN t + MaxIdleTicks ELSE Horizon
        stop == { x \in (t + 1)..last :
                    \/ x = last
                    \/ x \in JoinInstants
                    \/ \E p \in open :
                          /\ static_messages[p[2]].day_number
                                = days_since_join(users[p[1]].join_date, x)
                          /\ should_send(users[p[1]].join_date,
                                         static_messages[p[2]], st[p[2]], x) }
    IN  CHOOSE x \in stop : \A y \in stop : x <= y

\* The pairs a later sweep may still find due: the user is fetched and not
\* banned, the item is active and no DeliveryRecord exists.
OpenPairs(fetched, sent) ==
    { p \in fetched \X DOMAIN static_messages :
        /\ users[p[1]].is_banned = 0
        /\ static_messages[p[2]].is_active # 0
        /\ p \notin sent }

\* The number of rows of static_messages_sent for a pair.
RowsOf(rows, p) == IF p \in DOMAIN rows THEN rows[p] ELSE 0

\* An INSERT into a static_messages_sent without its UNIQUE constraint.
InsertRow(rows, p) ==
    [q \in DOMAIN rows \cup {p} |-> RowsOf(rows, q) + IF q = p THEN 1 ELSE 0]

\* Database.mark_static_message_sent: INSERT OR IGNORE under
\* UNIQUE(user_id, static_message_id).
mark_static_message_sent(rows, p) ==
    IF RowsOf(rows, p) > 0
    THEN rows
    ELSE [q \in DOMAIN rows \cup {p} |-> IF q = p THEN 1 ELSE rows[q]]

RECURSIVE MarkAll(_, _)
\* mark_static_message_sent for each pair of a set.
MarkAll(rows, ps) ==
    IF ps = {} THEN rows
    ELSE LET p == CHOOSE x \in ps : TRUE
         IN  MarkAll(mark_static_message_sent(rows, p), ps \ {p})

\* Database.is_static_message_sent: SELECT COUNT(*) ... > 0.
is_static_message_sent(p) == p \in static_messages_sent

\* The ledger after the send to the due pairs of which failing raised: the
\* write follows the send inside the try block.
LedgerAfter(sent, due, failing) == sent \cup (due \ failing)

\* The subsets of S of at most n elements.
SubsetsUpTo(S, n) ==
    IF n <= 0 THEN {{}} ELSE {t \in SUBSET S : Cardinality(t) <= n}

RECURSIVE SortByDayNumber(_)
\* ORDER BY day_number ASC over a set of item ids (ties in rowid order).
SortByDayNumber(S) ==
    IF S = {} THEN <<>>
    ELSE LET first == CHOOSE m \in S : \A n \in S :
                \/ static_messages[m].day_number < static_messages[n].day_number
                \/ /\ static_messages[m].day_number = static_messages[n].day_number
                   /\ m <= n
         IN  <<first>> \o SortByDayNumber(S \ {first})

\* Database.get_static_messages: the item ids, in result order.
get_static_messages == SortByDayNumber(DOMAIN static_messages)

\* The place of x in a sequence that holds it.
Position(seq, x) == CHOOSE i \in 1..Len(seq) : seq[i] = x

\* The place of a pair in the nested loops: for user in users, for msg in
\* static_messages.
SweepIndex(fseq, items, p) ==
    (Position(fseq, p[1]) - 1) * Len(items) + Position(items, p[2])

\* The pairs whose loop body the sweep enters: the user is not banned.
EvaluablePairs(fetched) ==
    {p \in fetched \X DOMAIN static_messages : users[p[1]].is_banned = 0}

\* The pairs for which the sweep calls is_static_message_sent: the item is
\* active and of today's day number.
CheckedPairs(fetched, t) ==
    { p \in EvaluablePairs(fetched) :
        /\ static_messages[p[2]].is_active # 0
        /\ static_messages[p[2]].day_number
              = days_since_join(users[p[1]].join_date, t) }

\* A sweep in which an unparsable send_time is not caught where it is parsed.
OnBadSendTimeRaise == "raise"

\* What the sweep does at an unparsable send_time: the except clause of the
\* parse logs and continues with the next item.
OnBadSendTime == "continue"

\* The pairs at which the sweep meets an unparsable send_time.
BadSendTimePairs(fetched, st, sent, t) ==
    { p \in CheckedPairs(fetched, t) :
        /\ p \notin sent
        /\ static_messages[p[2]].day_number # 0
        /\ ~st[p[2]].ok }

\* A sweep whose first Messenger exception ends it: the due pairs up to the
\* first failing one, in the sweep's order.
AttemptedUntilFailure(fseq, items, due, failing) ==
    {p \in due : \A q \in failing :
        SweepIndex(fseq, items, p) <= SweepIndex(fseq, items, q)}

\* The due pairs the sweep calls the Messenger for: the inner try/except
\* encloses the send of one pair, so all of them.
Attempted(fseq, items, due, failing) == due

\* send_static_messages run at the current minute and at the idle minutes
\* that follow.  failing is the set of due pairs whose Messenger call raises;
\* err holds the pair, if any, at which is_static_message_sent raises: that
\* exception is caught by the outer try only and ends the sweep.
\* (The singleton sets bind what the sweep reads once, as the code does.)
send_static_messages ==
    /\ now < Horizon
    /\ \E fseq \in {get_users}, items \in {get_static_messages},
          st \in {ParsedSendTimes} :
       \E fetched \in {{fseq[i] : i \in 1..Len(fseq)}} :
       \E err \in {{}} \cup {{p} : p \in IF store_errors < MaxStoreErrors
                                        THEN CheckedPairs(fetched, now) ELSE {}} :
       \E stops \in {err \cup IF OnBadSendTime = "raise"
                              THEN BadSendTimePairs(fetched, st, static_messages_sent, now)
                              ELSE {}} :
       \E reached \in {{p \in EvaluablePairs(fetched) : \A q \in stops :
                           SweepIndex(fseq, items, p) <= SweepIndex(fseq, items, q)}} :
       \E due \in {{p \in DuePairsOf(fetched, st, static_messages_sent, now) :
                       \A q \in stops :
                           SweepIndex(fseq, items, p) < SweepIndex(fseq, items, q)}} :
       \E failing \in SUBSET due :
       \E attempted \in {Attempted(fseq, items, due, failing)} :
       \E sent \in {LedgerAfter(static_messages_sent, attempted, failing)} :
            /\ failures + Cardinality(failing) <= MaxFailures
            /\ failing \subseteq attempted
            /\ static_messages_sent' = sent
            /\ sent_rows' = MarkAll(sent_rows, attempted \ failing)
            /\ send_ok' = [p \in DOMAIN send_ok |->
                  IF p \in attempted \ failing THEN send_ok[p] + 1 ELSE send_ok[p]]
            /\ send_failed' = [p \in DOMAIN send_failed |->
                  IF p \in failing THEN send_failed[p] + 1 ELSE send_failed[p]]
            /\ failures' = failures + Cardinality(failing)
            /\ swept' = [swept EXCEPT !.drip = reached, !.drip_error = err]
            /\ store_errors' = store_errors + Cardinality(err)
            /\ \E open \in {OpenPairs(fetched, sent)} :
                  now' = NextTick(open, st, now)
    /\ UNCHANGED <<outages, users, static_messages>>
    /\ UNCHANGED store_vars
    /\ UNCHANGED <<scheduled_messages, broadcast_sends, admin_calls, viewed_calls>>
    /\ UNCHANGED onb_vars

\* The bot process is down for d minutes: no tick runs in that time.
SchedulerOutage ==
    \E d \in OutageMinutes :
        /\ outages < MaxOutages
        /\ now + d <= Horizon
        /\ now' = now + d
        /\ outages' = outages + 1
        /\ UNCHANGED <<users, static_messages, static_messages_sent,
                       send_ok, send_failed, failures>>
        /\ UNCHANGED <<onb_vars, ops_vars, store_vars>>

\* A user reaches the bot (cmd_start or on_user_join): the registry upsert.
UserArrives ==
    \E u \in UserIds :
        /\ now \in JoinInstants
        /\ users' = add_user(u)
        /\ UNCHANGED <<now, outages, static_messages, static_messages_sent,
                       send_ok, send_failed, failures>>
        /\ UNCHANGED <<onb_vars, ops_vars, store_vars>>

\* The onboarding tables of a bot with no question configured and no event
\* handled yet.
NoOnboarding ==
    /\ user_questions = [q \in QuestionIds |-> NoRow]
    /\ user_onboarding_state = [u \in UserIds |-> NoRow]
    /\ user_answers = {}
    /\ join_requests = [k \in UserIds \X ChatIds |-> NoRow]
    /\ auto_approve_mode = "off"
    /\ questions_sent = [u \in UserIds |-> <<>>]
    /\ processed = [u \in UserIds |-> {}]
    /\ orderly = [u \in UserIds |-> TRUE]
    /\ last_event = [kind |-> "none", user |-> 0, question_id |-> 0,
                     started |-> FALSE, item |-> 0, chat |-> 0, raised |-> FALSE,
                     approval_step |-> FALSE, approvals |-> {}, refused |-> {}]

\* What no sweep has reached yet.
NothingSwept ==
    [drip |-> {}, drip_error |-> {}, broadcast |-> {}, broadcast_done |-> {},
     broadcast_error |-> {}]

\* No broadcast scheduled, no sweep run, no admin handler running.
IdleProcess ==
    /\ scheduled_messages = [b \in BroadcastIds |-> NoRow]
    /\ broadcast_sends = [b \in BroadcastIds |-> [ok |-> 0, failed |-> 0]]
    /\ swept = NothingSwept
    /\ store_errors = 0
    /\ admin_calls = {}
    /\ sent_rows = <<>>
    /\ viewed_calls = {}
    /\ answer_rows = <<>>
    /\ answer_calls = {}
    /\ start_calls = {}
    /\ bulk_calls = {}
    /\ crashes = 0
    /\ callback = NoRow
    /\ is_new = NoRow
    /\ request_calls = {}
    /\ request_rows = <<>>

\* No item content is modelled.
NoMedia ==
    /\ item_media = <<>>
    /\ media_log = <<>>

\* No admin session is modelled.
NoSessions ==
    /\ sessions = <<>>
    /\ issued = 0
    /\ verified = NoRow
    /\ utc_offset = 0

NoOperations ==
    /\ IdleProcess
    /\ NoMedia
    /\ NoSessions

\* No invite link in the key space.
NoLinks ==
    /\ invite_links = <<>>
    /\ invite_code = <<>>

DripInit ==
    /\ NoOnboarding
    /\ NoOperations
    /\ NoLinks
    /\ now = 0
    /\ outages = 0
    /\ users = [u \in UserIds |-> NoRow]
    /\ static_messages \in [ItemIds -> ItemChoices]
    /\ static_messages_sent = {}
    /\ send_ok = [p \in UserIds \X ItemIds |-> 0]
    /\ send_failed = [p \in UserIds \X ItemIds |-> 0]
    /\ failures = 0

DripNext ==
    \/ send_static_messages
    \/ SchedulerOutage
    \/ UserArrives

SpecDrip == DripInit /\ [][DripNext]_vars

(***************************************************************************)
(* The drip sweep in a process that may stop.                              *)
(***************************************************************************)
\* A sweep whose send and ledger write are one atomic step.
RecordedWithSend(p) == {p}

\* The DeliveryRecords written for the pair whose send went out when the
\* process stops before the next statement: mark_static_message_sent follows
\* the send, so none.
RecordedWhenStopped(p) == {}

\* send_static_messages interrupted by a stop of the process after the
\* successful send of the due pair p and before its ledger write: the due
\* pairs before p were sent and recorded (a failing one is not), p was sent
\* and has no DeliveryRecord.  The restarted process runs the next tick.
send_static_messages_stopped ==
    /\ now < Horizon
    /\ crashes < MaxCrashes
    /\ \E fseq \in {get_users}, items \in {get_static_messages},
          st \in {ParsedSendTimes} :
       \E fetched \in {{fseq[i] : i \in 1..Len(fseq)}} :
       \E due \in {DuePairsOf(fetched, st, static_messages_sent, now)} :
       \E p \in due :
       \E before \in {{q \in due : SweepIndex(fseq, items, q)
                                     < SweepIndex(fseq, items, p)}} :
       \E failing \in SubsetsUpTo(before, MaxFailures - failures) :
       \E recorded \in {(before \ failing) \cup RecordedWhenStopped(p)} :
            /\ static_messages_sent' = static_messages_sent \cup recorded
            /\ sent_rows' = MarkAll(sent_rows, recorded)
            /\ send_ok' = [q \in DOMAIN send_ok |->
                  IF q \in (before \ failing) \cup {p}
                  THEN send_ok[q] + 1 ELSE send_ok[q]]
            /\ send_failed' = [q \in DOMAIN send_failed |->
                  IF q \in failing THEN send_failed[q] + 1 ELSE send_failed[q]]
            /\ failures' = failures + Cardinality(failing)
            /\ swept' = [swept EXCEPT !.drip = before \cup {p},
                                      !.drip_error = {}]
            /\ crashes' = crashes + 1
            /\ \E open \in {OpenPairs(fetched, static_messages_sent \cup recorded)} :
                  now' = NextTick(open, st, now)
    /\ UNCHANGED <<outages, users, static_messages>>
    /\ UNCHANGED <<scheduled_messages, broadcast_sends, store_errors,
                   admin_calls, viewed_calls>>
    /\ UNCHANGED <<answer_rows, answer_calls, invite_links, invite_code,
                   start_calls, bulk_calls, side_vars>>
    /\ UNCHANGED onb_vars


(***************************************************************************)
(* The broadcast sweep.                                                    *)
(***************************************************************************)
RECURSIVE SortByScheduledTime(_)
\* ORDER BY scheduled_time ASC over a set of broadcast ids (ties in rowid
\* order).
SortByScheduledTime(S) ==
    IF S = {} THEN <<>>
    ELSE LET first == CHOOSE b \in S : \A c \in S :
                \/ scheduled_messages[b].scheduled_time
                      < scheduled_messages[c].scheduled_time
                \/ /\ scheduled_messages[b].scheduled_time
                      = scheduled_messages[c].scheduled_time
                   /\ b <= c
         IN  <<first>> \o SortByScheduledTime(S \ {first})

\* Database.get_pending_scheduled_messages: is_sent = 0 and scheduled_time
\* not after now, oldest first.
get_pending_scheduled_messages ==
    SortByScheduledTime({b \in DOMAIN scheduled_messages :
        /\ scheduled_messages[b] # NoRow
        /\ scheduled_messages[b].is_sent = 0
        /\ scheduled_messages[b].scheduled_time <= now})

\* Database.mark_scheduled_message_sent over a set of broadcast ids.
mark_scheduled_message_sent(done) ==
    [b \in DOMAIN scheduled_messages |->
        IF b \in done THEN [scheduled_messages[b] EXCEPT !.is_sent = 1]
        ELSE scheduled_messages[b]]

\* A sweep that marks a broadcast only when every recipient's send succeeded.
MarkedIfAllDelivered(completed, failing) ==
    {b \in completed : \A x \in failing : x[1] # b}

\* The broadcasts the sweep marks sent: those whose iteration ran to the
\* mark, whatever send_message_to_users met.
Marked(completed, failing) == completed

\* The Store calls of one iteration of the sweep that may raise: get_users
\* before the sends, mark_scheduled_message_sent after them.
StoreCallsOfBroadcast == {"get_users", "mark_scheduled_message_sent"}

\* check_scheduled_messages: for each pending broadcast, fetch the users,
\* send to those not banned (send_message_to_users catches each recipient's
\* exception), then mark the broadcast sent.  The one try encloses the whole
\* loop: err holds the broadcast and the Store call, if any, that raises,
\* and that exception ends the sweep.
check_scheduled_messages ==
    /\ now < Horizon
    /\ \E messages \in {get_pending_scheduled_messages},
          fseq \in {get_users} :
       \E user_ids \in {{fseq[i] : i \in {j \in 1..Len(fseq) :
                                           users[fseq[j]].is_banned = 0}}} :
       \E err \in {{}} \cup
                  { {<<messages[i], call>>} :
                      i \in IF store_errors < MaxStoreErrors
                            THEN 1..Len(messages) ELSE {},
                      call \in StoreCallsOfBroadcast } :
       \E completed \in {{messages[i] : i \in {j \in 1..Len(messages) :
                            \A x \in err : j < Position(messages, x[1])}}} :
       \E delivered \in {completed \cup
                            {x[1] : x \in {y \in err :
                                            y[2] = "mark_scheduled_message_sent"}}} :
       \E failing \in SubsetsUpTo(delivered \X user_ids, MaxFailures - failures) :
            /\ scheduled_messages' =
                  mark_scheduled_message_sent(Marked(completed, failing))
            /\ broadcast_sends' = [b \in DOMAIN broadcast_sends |->
                  IF b \in delivered
                  THEN [ok |-> broadcast_sends[b].ok
                                 + Cardinality({x \in (delivered \X user_ids) \ failing :
                                                   x[1] = b}),
                        failed |-> broadcast_sends[b].failed
                                 + Cardinality({x \in failing : x[1] = b})]
                  ELSE broadcast_sends[b]]
            /\ failures' = failures + Cardinality(failing)
            /\ swept' = [swept EXCEPT !.broadcast = delivered \X user_ids,
                                      !.broadcast_done = completed,
                                      !.broadcast_error = {x[1] : x \in err}]
            /\ store_errors' = store_errors + Cardinality(err)
    /\ UNCHANGED <<now, outages, users, static_messages, static_messages_sent,
                   send_ok, send_failed, admin_calls, sent_rows, viewed_calls>>
    /\ UNCHANGED <<onb_vars, store_vars>>

\* on_user_join: the registry upsert.
on_user_join(u) ==
    /\ users' = add_user(u)
    /\ UNCHANGED <<now, outages, static_messages, static_messages_sent,
                   send_ok, send_failed, failures>>
    /\ UNCHANGED <<onb_vars, ops_vars, store_vars>>

(***************************************************************************)
(* The two sweeps over a registry of up to MaxRegistry users.              *)
(***************************************************************************)
\* The minute at which a run over the large registry starts, a few ticks
\* before the horizon; the users registered before it joined one per minute.
RegistryEpoch == Horizon - 2 * MaxIdleTicks - 1

\* The pending broadcasts a run starts from: one due, and none, one due or
\* one due MaxIdleTicks minutes later.
BroadcastCatalogs ==
    { [b \in BroadcastIds |->
          IF b = 1 THEN [scheduled_time |-> 0, is_sent |-> 0] ELSE second] :
        second \in {NoRow, [scheduled_time |-> 0, is_sent |-> 0],
                    [scheduled_time |-> RegistryEpoch + MaxIdleTicks, is_sent |-> 0]} }

\* The users who joined since the run started.
Arrivals ==
    {u \in DOMAIN users : users[u] # NoRow /\ users[u].join_date >= RegistryEpoch}

\* User ids are handed out in order.
NextArrival(u) ==
    /\ users[u] = NoRow
    /\ \A v \in DOMAIN users : v < u => users[v] # NoRow
    /\ Cardinality(Arrivals) < MaxArrivals
    /\ now = RegistryEpoch

\* The start of a run of the sweeps over the user key space ids, with the
\* first n ids registered for some n of sizes and item as the active content
\* item; with spent, the run meets no Messenger failure and no Store error.
SweepStart(ids, sizes, spent, item) ==
    /\ NoOnboarding
    /\ now = RegistryEpoch
    /\ outages = 0
    /\ \E n \in sizes, banned \in {0, 1} :
          users = [u \in ids |->
                IF u <= n
                THEN [join_date |-> RegistryEpoch - Cardinality(ids) + u - 1,
                      is_banned |-> IF u = 1 THEN banned ELSE 0]
                ELSE NoRow]
    /\ static_messages = [m \in ItemIds |->
          IF m = 1
          THEN item
          ELSE [day_number |-> 1, send_time |-> T1430, additional_minutes |-> 0,
                is_active |-> 0]]
    /\ static_messages_sent = {}
    /\ send_ok = [p \in ids \X ItemIds |-> 0]
    /\ send_failed = [p \in ids \X ItemIds |-> 0]
    /\ failures = IF spent THEN MaxFailures ELSE 0
    /\ store_errors = IF spent THEN MaxStoreErrors ELSE 0
    /\ scheduled_messages \in BroadcastCatalogs
    /\ broadcast_sends = [b \in BroadcastIds |-> [ok |-> 0, failed |-> 0]]
    /\ swept = NothingSwept
    /\ admin_calls = {}
    /\ sent_rows = <<>>
    /\ viewed_calls = {}
    /\ answer_rows = <<>>
    /\ answer_calls = {}
    /\ invite_links = <<>>
    /\ invite_code = <<>>
    /\ start_calls = {}
    /\ bulk_calls = {}
    /\ crashes = 0
    /\ utc_offset = 0
    /\ verified = NoRow
    /\ issued = 0
    /\ sessions = <<>>
    /\ callback = NoRow
    /\ media_log = <<>>
    /\ item_media = <<>>
    /\ is_new = NoRow
    /\ request_calls = {}
    /\ request_rows = <<>>

\* A small registry, where calls may fail.
SweepInit ==
    SweepStart(SweepUsers, 0..MaxSweepUsers, FALSE,
               [day_number |-> 0, send_time |-> <<>>, additional_minutes |-> 0,
                is_active |-> 1])

\* A registry at the limit of get_users, whose users joined too late for
\* the day-1 item to come due before the horizon.
RegistryInit ==
    SweepStart(RegistryIds, {GetUsersLimit - 1, GetUsersLimit}, TRUE,
               [day_number |-> 1, send_time |-> T0900, additional_minutes |-> 0,
                is_active |-> 1])

SweepNext ==
    \/ send_static_messages
    \/ check_scheduled_messages
    \/ \E u \in DOMAIN users : NextArrival(u) /\ on_user_join(u)

SpecSweep == SweepInit /\ [][SweepNext]_vars

SpecRegistry == RegistryInit /\ [][SweepNext]_vars

(***************************************************************************)
(* The broadcast sweep in a process that may stop.                         *)
(***************************************************************************)
\* A sweep that marked the broadcast before its pass.
MarkedBeforePass(messages) == {messages[1]}

\* The broadcasts marked sent by a sweep that the process's stop interrupts
\* inside send_message_to_users: mark_scheduled_message_sent is the
\* statement after the pass, so none.
MarkedWhenStopped(messages) == {}

\* check_scheduled_messages interrupted by a stop of the process while
\* send_message_to_users runs for the first pending broadcast: the sends to
\* the recipients before the stop went out (a failing one is counted and not
\* retried), nothing is marked; the Store keeps its rows and the restarted
\* process runs the scheduler again.
check_scheduled_messages_stopped ==
    /\ now < Horizon
    /\ crashes < MaxCrashes
    /\ \E messages \in {get_pending_scheduled_messages},
          fseq \in {get_users} :
       /\ messages # <<>>
       /\ \E k \in 0..Len(fseq) :
          \E reached \in {{fseq[i] : i \in {j \in 1..k :
                                           users[fseq[j]].is_banned = 0}}} :
          \E failing \in SubsetsUpTo(reached, MaxFailures - failures) :
            /\ scheduled_messages' =
                  mark_scheduled_message_sent(MarkedWhenStopped(messages))
            /\ broadcast_sends' = [broadcast_sends EXCEPT
                  ![messages[1]] =
                      [ok |-> @.ok + Cardinality(reached \ failing),
                       failed |-> @.failed + Cardinality(failing)]]
            /\ failures' = failures + Cardinality(failing)
            /\ swept' = [swept EXCEPT !.broadcast = {messages[1]} \X reached,
                                      !.broadcast_done = {},
                                      !.broadcast_error = {}]
            /\ crashes' = crashes + 1
    /\ UNCHANGED <<now, outages, users, static_messages, static_messages_sent,
                   send_ok, send_failed, store_errors, admin_calls, sent_rows,
                   viewed_calls>>
    /\ UNCHANGED <<onb_vars, answer_rows, answer_calls, invite_links,
                   invite_code, start_calls, bulk_calls, side_vars>>

CrashNext ==
    \/ check_scheduled_messages
    \/ check_scheduled_messages_stopped
    \/ \E u \in DOMAIN users : NextArrival(u) /\ on_user_join(u)

SpecCrash == SweepInit /\ [][CrashNext]_vars

(***************************************************************************)
(* The onboarding engine: Store operations.                                *)
(***************************************************************************)
RECURSIVE SortByOrderNumber(_)
\* ORDER BY order_number ASC over a set of question ids; rows of equal
\* order_number come back in rowid order.
SortByOrderNumber(S) ==
    IF S = {} THEN <<>>
    ELSE LET first == CHOOSE q \in S : \A r \in S :
                \/ user_questions[q].order_number < user_questions[r].order_number
                \/ /\ user_questions[q].order_number = user_questions[r].order_number
                   /\ q <= r
         IN  <<first>> \o SortByOrderNumber(S \ {first})

RECURSIVE SortById(_)
\* The question ids of a set in rowid order.
SortById(S) ==
    IF S = {} THEN <<>>
    ELSE LET first == CHOOSE q \in S : \A r \in S : q <= r
         IN  <<first>> \o SortById(S \ {first})

\* The rows WHERE is_active = 1.
ActiveQuestionIds ==
    {q \in QuestionIds : user_questions[q] # NoRow /\ user_questions[q].is_active = 1}

\* A get_user_questions that forgets the ORDER BY.
get_user_questions_by_id == SortById(ActiveQuestionIds)

\* Database.get_user_questions(active_only=True): the ids, in result order.
get_user_questions == SortByOrderNumber(ActiveQuestionIds)

\* Database.get_user_question: the row, or NoRow for an unknown id.
get_user_question(q) == IF q \in QuestionIds THEN user_questions[q] ELSE NoRow

\* The onboarding tables and histories a handler reads and writes, the
\* Messenger failures it met, and the approveJoinRequest calls it made:
\* whether the approval loop ran, the rows it called Messenger for, and the
\* rows whose call raised.
Store ==
    [state |-> user_onboarding_state, answers |-> user_answers,
     requests |-> join_requests, sent |-> questions_sent,
     processed |-> processed, fails |-> 0,
     approval_step |-> FALSE, approvals |-> {}, refused |-> {}]

\* Database.set_user_onboarding_state(user_id, current_question_id=cq): an
\* existing row is updated only when cq is not None; a new row stores cq or 0.
set_user_onboarding_state(S, u, cq) ==
    IF S.state[u] # NoRow
    THEN IF cq # None
         THEN [S EXCEPT !.state[u].current_question_id = cq]
         ELSE S
    ELSE [S EXCEPT !.state[u] = [current_question_id |-> IF cq = None THEN 0 ELSE cq,
                                 completed |-> FALSE]]

\* Database.complete_user_onboarding: UPDATE ... WHERE user_id = ?.
complete_user_onboarding(S, u) ==
    IF S.state[u] # NoRow THEN [S EXCEPT !.state[u].completed = TRUE] ELSE S

\* Database.add_user_answer: update the rows of (user, question) if any,
\* insert one otherwise.
add_user_answer(S, u, q, text) ==
    IF \E r \in S.answers : r.user_id = u /\ r.question_id = q
    THEN [S EXCEPT !.answers =
            {IF r.user_id = u /\ r.question_id = q
             THEN [r EXCEPT !.answer_text = text] ELSE r : r \in S.answers}]
    ELSE [S EXCEPT !.answers =
            @ \cup {[user_id |-> u, question_id |-> q, answer_text |-> text]}]

\* Database.add_join_request: the upsert sets status 'pending'.
add_join_request(S, u, c) ==
    [S EXCEPT !.requests[<<u, c>>] = [status |-> "pending"]]

\* Database.approve_join_request: UPDATE ... SET status = 'approved' WHERE
\* id = ?, whatever the status of the row.
approve_join_request(requests, k) == [requests EXCEPT ![k].status = "approved"]

\* Database.deny_join_request: UPDATE ... SET status = 'denied' WHERE id = ?,
\* whatever the status of the row.
deny_join_request(requests, k) == [requests EXCEPT ![k].status = "denied"]

(***************************************************************************)
(* The onboarding engine: Messenger calls and the engine's functions.      *)
(* A Messenger call is made at a site; bad is the set of sites whose call  *)
(* raises in this handler run.                                             *)
(***************************************************************************)
SiteWelcome == <<"welcome", 0>>
SiteMenu == <<"menu", 0>>
SiteAck == <<"ack", 0>>
SiteNotice == <<"notice", 0>>
SiteCompleted == <<"completed", 0>>
SiteQuestion(q) == <<"question", q>>
SiteApprove(c) == <<"approve", c>>

\* The chats of the join request table's key space.
Chats == {k[2] : k \in DOMAIN join_requests}

\* The sites the engine's functions call, whatever the handler.
EngineSites ==
    {SiteCompleted} \cup {SiteQuestion(q) : q \in QuestionIds}
        \cup {SiteApprove(c) : c \in Chats}

\* The failure patterns over the sites a handler can reach that the remaining
\* failure budget allows.
FailureChoices(own) ==
    {b \in SUBSET (own \cup EngineSites) : failures + Cardinality(b) <= MaxFailures}

\* A Messenger call whose exception, if any, is caught where it is made.
Messenger(S, site, bad) == IF site \in bad THEN [S EXCEPT !.fails = @ + 1] ELSE S

\* send_question: store the cursor, then send the question; an exception is
\* logged.
send_question(S, u, q, bad) ==
    LET S1 == set_user_onboarding_state(S, u, q)
        S2 == [S1 EXCEPT !.sent[u] = Append(@, q)]
    IN  Messenger(S2, SiteQuestion(q), bad)

\* A start_user_onboarding without the test of the question list: the cursor
\* is reset whatever the catalog holds.
start_user_onboarding_unguarded(S, u, bad) ==
    LET questions == get_user_questions
        S1 == set_user_onboarding_state(S, u, 0)
    IN  IF questions # <<>> THEN send_question(S1, u, questions[1], bad) ELSE S1

\* start_user_onboarding: with a non-empty active catalog, reset the cursor
\* to 0 and send the first question.
start_user_onboarding(S, u, bad) ==
    LET questions == get_user_questions
    IN  IF questions # <<>>
        THEN send_question(set_user_onboarding_state(S, u, 0), u, questions[1], bad)
        ELSE S

\* The user's rows WHERE status = 'pending'.
PendingRequests(requests, u) ==
    {k \in DOMAIN requests :
        /\ k[1] = u
        /\ requests[k] # NoRow
        /\ requests[k].status = "pending"}

\* An approval loop with one try around the whole loop: the first call that
\* raises ends it (rows taken in chat order).
ApprovePendingUntilFailure(S, u, bad) ==
    LET pending == PendingRequests(S.requests, u)
        raised == {k \in pending : SiteApprove(k[2]) \in bad}
        called == {k \in pending : \A r \in raised : k[2] <= r[2]}
    IN  [S EXCEPT !.requests = [k \in DOMAIN S.requests |->
                        IF k \in called \ raised
                        THEN [S.requests[k] EXCEPT !.status = "approved"]
                        ELSE S.requests[k]],
                  !.fails = @ + Cardinality(called \cap raised),
                  !.approval_step = TRUE,
                  !.approvals = @ \cup called,
                  !.refused = @ \cup (called \cap raised)]

\* An approval loop over every row of the user, whatever its status.
ApproveEveryRow(S, u, bad) ==
    LET rows == {k \in DOMAIN S.requests : k[1] = u /\ S.requests[k] # NoRow}
        raised == {k \in rows : SiteApprove(k[2]) \in bad}
    IN  [S EXCEPT !.requests = [k \in DOMAIN S.requests |->
                        IF k \in rows \ raised
                        THEN [S.requests[k] EXCEPT !.status = "approved"]
                        ELSE S.requests[k]],
                  !.fails = @ + Cardinality(raised),
                  !.approval_step = TRUE,
                  !.approvals = @ \cup rows,
                  !.refused = @ \cup raised]

\* The approval loop of send_next_question over the user's pending rows:
\* each row has its own try, the row is written after its Messenger call
\* returned.
ApprovePending(S, u, bad) ==
    LET pending == PendingRequests(S.requests, u)
        raised == {k \in pending : SiteApprove(k[2]) \in bad}
    IN  [S EXCEPT !.requests = [k \in DOMAIN S.requests |->
                        IF k \in pending \ raised
                        THEN [S.requests[k] EXCEPT !.status = "approved"]
                        ELSE S.requests[k]],
                  !.fails = @ + Cardinality(raised),
                  !.approval_step = TRUE,
                  !.approvals = @ \cup pending,
                  !.refused = @ \cup raised]

\* A completion that runs the approval loop in every mode but immediate.
ApprovesUnlessImmediate(mode) == mode # "immediate"

\* send_next_question: if auto_approve_mode == 'after_messages'.
ApprovesAfterCompletion(mode) == mode = "after_messages"

\* next(i for i, q in enumerate(questions) if q['id'] == current, -1),
\* counted from 1 (0 when absent).
IndexOf(questions, q) ==
    IF \E i \in 1..Len(questions) : questions[i] = q
    THEN CHOOSE i \in 1..Len(questions) : questions[i] = q
    ELSE 0

\* send_next_question(user_id, current_question_id).
send_next_question(S, u, current, bad) ==
    LET questions == get_user_questions
        current_index == IndexOf(questions, current)
        S0 == [S EXCEPT !.processed[u] = @ \cup {current}]
    IN  IF current_index >= 1 /\ current_index < Len(questions)
        THEN send_question(S0, u, questions[current_index + 1], bad)
        ELSE LET S1 == complete_user_onboarding(S0, u)
                 S2 == set_user_onboarding_state(S1, u, None)
                 S3 == IF ApprovesAfterCompletion(auto_approve_mode)
                       THEN ApprovePending(S2, u, bad)
                       ELSE S2
             IN  Messenger(S3, SiteCompleted, bad)

(***************************************************************************)
(* The inbound event handlers.                                             *)
(***************************************************************************)
TextValues == {"hello"}
ButtonValues == {"yes"}

\* The question ids a button callback may carry: the catalog's, and one too
\* many (a payload naming no stored question).
CallbackQuestionIds == 1..(MaxQuestions + 1)

\* What a handler leaves in the tables and in the Messenger history.
Commit(S) ==
    /\ user_onboarding_state' = S.state
    /\ user_answers' = S.answers
    /\ join_requests' = S.requests
    /\ questions_sent' = S.sent
    /\ processed' = S.processed
    /\ failures' = failures + S.fails

\* The user is waiting for the answer to question q.
Awaiting(u, q) ==
    /\ user_onboarding_state[u] # NoRow
    /\ ~user_onboarding_state[u].completed
    /\ user_onboarding_state[u].current_question_id = q

\* An inbound event: its kind, user, question id and whether onboarding was
\* started; Outcome adds the chat, whether an exception left the handler, and
\* the approveJoinRequest calls of the handler run.
Event(kind, u, q, started) ==
    [kind |-> kind, user |-> u, question_id |-> q, started |-> started,
     item |-> 0, chat |-> 0, raised |-> FALSE, approval_step |-> FALSE,
     approvals |-> {}, refused |-> {}]

Outcome(event, c, S, raised) ==
    [event EXCEPT !.chat = c, !.raised = raised,
                  !.approval_step = S.approval_step,
                  !.approvals = S.approvals, !.refused = S.refused]

\* The kinds of the events the bot's handlers take.
BotEvents == {"cmd_start", "text", "button", "join_request"}

OnboardingFrame ==
    /\ UNCHANGED <<now, outages, static_messages, static_messages_sent,
                   send_ok, send_failed, user_questions, auto_approve_mode>>
    /\ UNCHANGED <<ops_vars, store_vars>>

\* cmd_start from db.add_user on: upsert the user; with questions and mode
\* after_messages greet and start onboarding, otherwise show the menu.
\* Neither message.answer is inside a try: an exception ends the handler.
start_command(u) ==
    /\ Len(questions_sent[u]) < MaxDispatches
    /\ \E bad \in FailureChoices({SiteWelcome, SiteMenu}) :
        LET onboarding == get_user_questions # <<>>
                            /\ auto_approve_mode = "after_messages"
            started == onboarding /\ SiteWelcome \notin bad
            S1 == IF onboarding
                  THEN IF SiteWelcome \in bad
                       THEN Messenger(Store, SiteWelcome, bad)
                       ELSE start_user_onboarding(Store, u, bad)
                  ELSE Messenger(Store, SiteMenu, bad)
        IN  /\ users' = add_user(u)
            /\ Commit(S1)
            /\ orderly' = [orderly EXCEPT ![u] =
                  @ /\ ~(started /\ user_onboarding_state[u] # NoRow)]
            /\ last_event' = Outcome(Event("cmd_start", u, 0, started), 0, S1,
                                      bad \cap {IF onboarding THEN SiteWelcome
                                                ELSE SiteMenu} # {})

\* cmd_start for a /start that carries no code: add_user stores invite_code
\* None in a new row and leaves the column of an existing row alone.
cmd_start(u) ==
    /\ start_command(u)
    /\ OnboardingFrame

\* handle_text_message: an answer when the stored cursor names a question of
\* type text, a menu click otherwise.  An exception of message.answer is
\* caught by the handler's try and ends it.
handle_text_message(u) ==
    /\ Len(questions_sent[u]) < MaxDispatches
    /\ \E text \in TextValues, bad \in FailureChoices({SiteAck, SiteMenu}) :
        LET row == user_onboarding_state[u]
            question_id == IF row # NoRow THEN row.current_question_id ELSE 0
            question == get_user_question(question_id)
            answers == /\ row # NoRow
                       /\ question_id # 0
                       /\ question # NoRow
                       /\ question.question_type = "text"
            S1 == add_user_answer(Store, u, question_id, text)
            S2 == IF SiteAck \in bad
                  THEN Messenger(S1, SiteAck, bad)
                  ELSE send_next_question(S1, u, question_id, bad)
        IN  /\ Commit(IF answers THEN S2 ELSE Messenger(Store, SiteMenu, bad))
            /\ orderly' = [orderly EXCEPT ![u] =
                  @ /\ (answers => Awaiting(u, question_id))]
            /\ last_event' =
                  Outcome(Event("text", u, IF answers THEN question_id ELSE 0, FALSE),
                          0, IF answers THEN S2 ELSE Store, FALSE)
    /\ UNCHANGED users
    /\ OnboardingFrame

\* handle_answer_button: store the answer for the question id of the payload,
\* acknowledge, then send_next_question for that id.  When the acknowledgement
\* raises, the except block calls callback.answer again, outside any try.
handle_answer_button(u) ==
    /\ Len(questions_sent[u]) < MaxDispatches
    /\ \E question_id \in CallbackQuestionIds, answer_value \in ButtonValues,
          bad \in FailureChoices({SiteAck}) :
       \E raised \in IF SiteAck \in bad THEN BOOLEAN ELSE {FALSE} :
        LET S1 == add_user_answer(Store, u, question_id, answer_value)
            S2 == IF SiteAck \in bad
                  THEN Messenger(S1, SiteAck, bad)
                  ELSE send_next_question(S1, u, question_id, bad)
        IN  /\ Commit(S2)
            /\ orderly' = [orderly EXCEPT ![u] = @ /\ Awaiting(u, question_id)]
            /\ last_event' = Outcome(Event("button", u, question_id, FALSE),
                                      0, S2, raised)
    /\ UNCHANGED users
    /\ OnboardingFrame

\* A mode immediate that writes the row before it calls the Messenger.
ApproveImmediatelyRowFirst(S, u, c, bad) ==
    LET S1 == [S EXCEPT !.requests = approve_join_request(@, <<u, c>>),
                        !.approvals = @ \cup {<<u, c>>}]
    IN  IF SiteApprove(c) \in bad
        THEN [Messenger(S1, SiteApprove(c), bad) EXCEPT !.refused = @ \cup {<<u, c>>}]
        ELSE S1

\* on_join_request, mode immediate: approve_chat_join_request, then look up
\* the user's pending row of this chat and mark it approved; an exception of
\* the call is logged.
ApproveImmediately(S, u, c, bad) ==
    LET S1 == [S EXCEPT !.approvals = @ \cup {<<u, c>>}]
    IN  IF SiteApprove(c) \in bad
        THEN [Messenger(S1, SiteApprove(c), bad) EXCEPT !.refused = @ \cup {<<u, c>>}]
        ELSE IF <<u, c>> \in PendingRequests(S1.requests, u)
             THEN [S1 EXCEPT !.requests = approve_join_request(@, <<u, c>>)]
             ELSE S1

\* on_join_request: store the request as pending; mode immediate approves it
\* when the Messenger call succeeds; mode after_messages sends a notice and
\* starts onboarding when questions exist.  Every Messenger call of the
\* handler is inside a try.
on_join_request(u) ==
    /\ Len(questions_sent[u]) < MaxDispatches
    /\ \E c \in Chats, bad \in FailureChoices({SiteNotice}) :
        LET S1 == add_join_request(Store, u, c)
            starts == /\ auto_approve_mode = "after_messages"
                      /\ SiteNotice \notin bad
                      /\ get_user_questions # <<>>
            S2 == IF auto_approve_mode = "immediate"
                  THEN ApproveImmediately(S1, u, c, bad)
                  ELSE IF auto_approve_mode = "after_messages"
                  THEN IF SiteNotice \in bad
                       THEN Messenger(S1, SiteNotice, bad)
                       ELSE start_user_onboarding(S1, u, bad)
                  ELSE S1
        IN  /\ Commit(S2)
            /\ orderly' = [orderly EXCEPT ![u] =
                  @ /\ ~(starts /\ user_onboarding_state[u] # NoRow)]
            /\ last_event' = Outcome(Event("join_request", u, 0, starts),
                                      c, S2, FALSE)
    /\ UNCHANGED users
    /\ OnboardingFrame

(***************************************************************************)
(* The question catalogs the model draws from.                             *)
(***************************************************************************)
\* order_number falls as the id rises: storage order is the reverse of the
\* asking order.
OrderReversed == [q \in QuestionIds |-> 10 * (MaxQuestions + 1 - q)]

\* Two neighbouring ids share an order_number.
OrderTied == [q \in QuestionIds |-> 10 * ((q + 1) \div 2)]

TypeAlternating == [q \in QuestionIds |-> IF q % 2 = 1 THEN "text" ELSE "buttons"]

AllActive == [q \in QuestionIds |-> 1]
SecondInactive == [q \in QuestionIds |-> IF q = 2 THEN 0 ELSE 1]
NoneActive == [q \in QuestionIds |-> 0]

QuestionCatalogs ==
    { [q \in QuestionIds |->
          [order_number |-> ord[q], question_type |-> TypeAlternating[q],
           is_active |-> act[q]]] :
        ord \in {OrderReversed, OrderTied},
        act \in {AllActive, SecondInactive, NoneActive} }

Modes == {"off", "immediate", "after_messages"}

OnbInit ==
    /\ NoOperations
    /\ NoLinks
    /\ now = 0
    /\ outages = 0
    /\ users = [u \in UserIds |-> NoRow]
    /\ static_messages = [m \in ItemIds |-> CHOOSE c \in ItemChoices : TRUE]
    /\ static_messages_sent = {}
    /\ send_ok = [p \in UserIds \X ItemIds |-> 0]
    /\ send_failed = [p \in UserIds \X ItemIds |-> 0]
    /\ failures = 0
    /\ user_questions \in QuestionCatalogs
    /\ user_onboarding_state = [u \in UserIds |-> NoRow]
    /\ user_answers = {}
    /\ join_requests = [k \in UserIds \X ChatIds |-> NoRow]
    /\ auto_approve_mode \in Modes
    /\ questions_sent = [u \in UserIds |-> <<>>]
    /\ processed = [u \in UserIds |-> {}]
    /\ orderly = [u \in UserIds |-> TRUE]
    /\ last_event = Event("none", 0, 0, FALSE)

OnbNext ==
    \E u \in UserIds :
        \/ cmd_start(u)
        \/ handle_text_message(u)
        \/ handle_answer_button(u)
        \/ on_join_request(u)

SpecOnb == OnbInit /\ [][OnbNext]_vars

(***************************************************************************)
(* The join request ledger under the bot's handlers and the admin surface. *)
(* The admin panel runs in its own process: one iteration of its approve   *)
(* and deny handlers is two steps, the read of the row with the Messenger  *)
(* call, and the write of the row after the call returned.                 *)
(***************************************************************************)
\* One iteration of approve_join_requests / deny_join_requests up to the
\* return of the Messenger call: a row that is missing or not pending is
\* skipped; an exception of the call is logged and nothing is written.
AdminCall(kind, k) ==
    /\ Cardinality(admin_calls) < MaxAdminCalls
    /\ join_requests[k] # NoRow
    /\ join_requests[k].status = "pending"
    /\ \E ok \in IF failures < MaxFailures THEN BOOLEAN ELSE {TRUE} :
        /\ admin_calls' = IF ok THEN admin_calls \cup {[kind |-> kind, key |-> k]}
                                ELSE admin_calls
        /\ failures' = IF ok THEN failures ELSE failures + 1
    /\ last_event' = Outcome(Event(kind, k[1], 0, FALSE), k[2], Store, FALSE)
    /\ UNCHANGED <<now, outages, users, static_messages, static_messages_sent,
                   send_ok, send_failed>>
    /\ UNCHANGED <<user_questions, user_onboarding_state, user_answers,
                   join_requests, auto_approve_mode, questions_sent, processed,
                   orderly>>
    /\ UNCHANGED store_vars
    /\ UNCHANGED <<scheduled_messages, broadcast_sends, swept, store_errors,
                   sent_rows, viewed_calls>>

\* approve_join_requests: bot_instance.approve_chat_join_request for the row.
approve_join_requests(k) == AdminCall("admin_approve", k)

\* deny_join_requests: bot_instance.decline_chat_join_request for the row.
deny_join_requests(k) == AdminCall("admin_deny", k)

\* The rest of the iteration: db.approve_join_request(request_id) or
\* db.deny_join_request(request_id).
AdminWrite(call) ==
    /\ call \in admin_calls
    /\ admin_calls' = admin_calls \ {call}
    /\ join_requests' = IF call.kind = "admin_approve"
                        THEN approve_join_request(join_requests, call.key)
                        ELSE deny_join_request(join_requests, call.key)
    /\ last_event' = Outcome(Event("admin_write", call.key[1], 0, FALSE),
                             call.key[2], Store, FALSE)
    /\ UNCHANGED drip_vars
    /\ UNCHANGED <<user_questions, user_onboarding_state, user_answers,
                   auto_approve_mode, questions_sent, processed, orderly>>
    /\ UNCHANGED store_vars
    /\ UNCHANGED <<scheduled_messages, broadcast_sends, swept, store_errors,
                   sent_rows, viewed_calls>>

\* A catalog whose only active question is question 1 (of type text).
FirstOnly == [q \in QuestionIds |-> IF q = 1 THEN 1 ELSE 0]

JoinCatalogs ==
    { [q \in QuestionIds |->
          [order_number |-> OrderReversed[q], question_type |-> TypeAlternating[q],
           is_active |-> act[q]]] :
        act \in {FirstOnly, NoneActive} }

\* The values get_setting('auto_approve_mode') returns; "unset" stands for
\* None.
JoinModes == Modes \cup {"unset"}

\* The tables are empty; the key space is ids x chats.
JoinStart(ids, chats) ==
    /\ NoOperations
    /\ now = 0
    /\ outages = 0
    /\ users = [u \in ids |-> NoRow]
    /\ static_messages = [m \in ItemIds |-> CHOOSE c \in ItemChoices : TRUE]
    /\ static_messages_sent = {}
    /\ send_ok = [p \in ids \X ItemIds |-> 0]
    /\ send_failed = [p \in ids \X ItemIds |-> 0]
    /\ failures = 0
    /\ user_questions \in JoinCatalogs
    /\ user_onboarding_state = [u \in ids |-> NoRow]
    /\ user_answers = {}
    /\ join_requests = [k \in ids \X chats |-> NoRow]
    /\ auto_approve_mode \in JoinModes
    /\ questions_sent = [u \in ids |-> <<>>]
    /\ processed = [u \in ids |-> {}]
    /\ orderly = [u \in ids |-> TRUE]
    /\ last_event = Event("none", 0, 0, FALSE)

\* The user has been sent fewer than MaxJoinDispatches questions.
JoinTurn(u) == Len(questions_sent[u]) < MaxJoinDispatches

\* Two users and two chats, in mode after_messages.
JoinInit ==
    /\ JoinStart(JoinUsers, JoinChats)
    /\ NoLinks
    /\ auto_approve_mode = "after_messages"

\* The bot alone.  Every user files join requests; the users of Respondents
\* also talk to the bot.
JoinNext ==
    \/ \E u \in Respondents :
          \/ JoinTurn(u) /\ cmd_start(u)
          \/ JoinTurn(u) /\ handle_text_message(u)
          \/ JoinTurn(u) /\ handle_answer_button(u)
    \/ \E u \in JoinUsers : JoinTurn(u) /\ on_join_request(u)

SpecJoin == JoinInit /\ [][JoinNext]_vars

LedgerInit ==
    /\ JoinStart(UserIds, ChatIds)
    /\ NoLinks

\* The bot and the admin surface, concurrently.
LedgerNext ==
    \/ \E u \in UserIds :
          \/ JoinTurn(u) /\ cmd_start(u)
          \/ JoinTurn(u) /\ handle_text_message(u)
          \/ JoinTurn(u) /\ handle_answer_button(u)
          \/ JoinTurn(u) /\ on_join_request(u)
    \/ \E k \in DOMAIN join_requests : approve_join_requests(k)
    \/ \E k \in DOMAIN join_requests : deny_join_requests(k)
    \/ \E call \in admin_calls : AdminWrite(call)

SpecLedger == LedgerInit /\ [][LedgerNext]_vars

(***************************************************************************)
(* The "mark as viewed" callback.  The handler runs concurrently with the  *)
(* scheduler and with other handlers: it is three steps, up to the choice  *)
(* of the next item, the Messenger send, and the ledger write.             *)
(***************************************************************************)
\* An event of the "mark as viewed" handler for item m.
ViewedEvent(kind, u, m) == [Event(kind, u, 0, FALSE) EXCEPT !.item = m]

\* The items send_next_message_if_available may pick after item m: active,
\* of the day of m, not in the user's ledger, with a greater id.
NextMessages(u, m) ==
    IF m \notin DOMAIN static_messages THEN {}
    ELSE {n \in DOMAIN static_messages :
            /\ static_messages[n].is_active # 0
            /\ static_messages[n].day_number = static_messages[m].day_number
            /\ ~is_static_message_sent(<<u, n>>)
            /\ n > m}

\* next_msg: the first of them in the order of get_static_messages, 0 for
\* None.
next_msg(u, m) ==
    LET items == get_static_messages
        found == {i \in 1..Len(items) : items[i] \in NextMessages(u, m)}
    IN  IF found = {} THEN 0
        ELSE items[CHOOSE i \in found : \A j \in found : i <= j]

\* handle_viewed_button up to the end of the loop of
\* send_next_message_if_available: acknowledge the callback and edit the
\* keyboard (an exception of either ends the handler), then pick next_msg.
\* The button is under a message the user was sent.
handle_viewed_button(u, m) ==
    /\ users[u] # NoRow
    /\ send_ok[<<u, m>>] >= 1
    /\ Cardinality(viewed_calls) < MaxViewedCalls
    /\ \E ok \in IF failures < MaxFailures THEN BOOLEAN ELSE {TRUE},
          id \in {CHOOSE i \in 1..MaxViewedCalls :
                     \A call \in viewed_calls : call.id # i} :
        /\ failures' = IF ok THEN failures ELSE failures + 1
        /\ viewed_calls' =
              IF ok /\ next_msg(u, m) # 0
              THEN viewed_calls \cup {[id |-> id, user |-> u, msg |-> m,
                                       next |-> next_msg(u, m), stage |-> "send"]}
              ELSE viewed_calls
    /\ last_event' = ViewedEvent("viewed", u, m)
    /\ UNCHANGED <<now, outages, users, static_messages, static_messages_sent,
                   send_ok, send_failed>>
    /\ UNCHANGED <<user_questions, user_onboarding_state, user_answers,
                   join_requests, auto_approve_mode, questions_sent, processed,
                   orderly>>
    /\ UNCHANGED store_vars
    /\ UNCHANGED <<scheduled_messages, broadcast_sends, swept, store_errors,
                   admin_calls, sent_rows>>

\* send_next_message_if_available: bot.send_message of next_msg; an exception
\* ends the handler.
send_next_message(call) ==
    /\ call \in viewed_calls
    /\ call.stage = "send"
    /\ \E ok \in IF failures < MaxFailures THEN BOOLEAN ELSE {TRUE} :
        /\ failures' = IF ok THEN failures ELSE failures + 1
        /\ send_ok' = IF ok THEN [send_ok EXCEPT ![<<call.user, call.next>>] = @ + 1]
                            ELSE send_ok
        /\ send_failed' = IF ok THEN send_failed
                                ELSE [send_failed EXCEPT ![<<call.user, call.next>>] = @ + 1]
        /\ viewed_calls' = (viewed_calls \ {call}) \cup
                               IF ok THEN {[call EXCEPT !.stage = "mark"]} ELSE {}
    /\ last_event' = ViewedEvent("viewed_send", call.user, call.next)
    /\ UNCHANGED <<now, outages, users, static_messages, static_messages_sent>>
    /\ UNCHANGED <<user_questions, user_onboarding_state, user_answers,
                   join_requests, auto_approve_mode, questions_sent, processed,
                   orderly>>
    /\ UNCHANGED store_vars
    /\ UNCHANGED <<scheduled_messages, broadcast_sends, swept, store_errors,
                   admin_calls, sent_rows>>

\* send_next_message_if_available: db.mark_static_message_sent of next_msg.
mark_next_message(call) ==
    /\ call \in viewed_calls
    /\ call.stage = "mark"
    /\ static_messages_sent' = static_messages_sent \cup {<<call.user, call.next>>}
    /\ sent_rows' = mark_static_message_sent(sent_rows, <<call.user, call.next>>)
    /\ viewed_calls' = viewed_calls \ {call}
    /\ last_event' = ViewedEvent("viewed_mark", call.user, call.next)
    /\ UNCHANGED <<now, outages, users, static_messages, send_ok, send_failed,
                   failures>>
    /\ UNCHANGED <<user_questions, user_onboarding_state, user_answers,
                   join_requests, auto_approve_mode, questions_sent, processed,
                   orderly>>
    /\ UNCHANGED store_vars
    /\ UNCHANGED <<scheduled_messages, broadcast_sends, swept, store_errors,
                   admin_calls>>

\* Catalogs whose items share a day.
ViewedChoices == {c \in ItemChoices : c.is_active = 1 /\ c.send_time # T2599}

ViewedInit ==
    /\ DripInit
    /\ \A m \in ItemIds : static_messages[m] \in ViewedChoices

ViewedNext ==
    \/ send_static_messages
    \/ UserArrives
    \/ \E u \in DOMAIN users, m \in DOMAIN static_messages : handle_viewed_button(u, m)
    \/ \E call \in viewed_calls : send_next_message(call)
    \/ \E call \in viewed_calls : mark_next_message(call)

SpecViewed == ViewedInit /\ [][ViewedNext]_vars

\* The drip scheduler of a process that may stop, over catalogs whose items
\* are active.
DripCrashNext ==
    \/ send_static_messages
    \/ send_static_messages_stopped
    \/ SchedulerOutage
    \/ UserArrives

SpecDripCrash == ViewedInit /\ [][DripCrashNext]_vars

(***************************************************************************)
(* The drip sweep with the content of the items: what the loop body sends  *)
(* for a due pair.                                                         *)
(***************************************************************************)
\* The column holds NULL.
MediaNull == "NULL"

\* numeric_mapping of normalize_media_type.
numeric_mapping ==
    [x \in {"0", "1", "2", "3", "4", "5", "6", "7"} |->
        CASE x = "0" -> "text"
          [] x = "1" -> "photo"
          [] x = "2" -> "video"
          [] x = "3" -> "document"
          [] x = "4" -> "animation"
          [] x = "5" -> "audio"
          [] x = "6" -> "voice"
          [] x = "7" -> "video_note"]

\* normalize_media_type of bot.py: None is 'text', a legacy number is mapped,
\* any other string is returned as it is.
normalize_media_type(media_type) ==
    IF media_type = MediaNull THEN "text"
    ELSE IF media_type \in DOMAIN numeric_mapping THEN numeric_mapping[media_type]
    ELSE media_type

\* The kinds sent with the text as caption, and those sent bare with the
\* text in a message of its own.
CaptionedKinds == {"photo", "video", "animation", "document", "audio"}
BareKinds == {"video_note", "voice"}

send_message == [method |-> "send_message", kind |-> "text"]
send_media(kind) == [method |-> "send_media", kind |-> kind]

\* The Messenger calls of the loop body for one due pair, in order: the
\* if / elif chain on media_type and media_file_id, and its else branch, the
\* fallback to text.
MessengerCalls(item) ==
    LET media_type == normalize_media_type(item.media_type)
        text_if_any == IF item.text # "" THEN <<send_message>> ELSE <<>>
    IN  IF media_type = "text" THEN <<send_message>>
        ELSE IF media_type \in CaptionedKinds /\ item.media_file_id # ""
        THEN <<send_media(media_type)>>
        ELSE IF media_type \in BareKinds /\ item.media_file_id # ""
        THEN <<send_media(media_type)>> \o text_if_any
        ELSE text_if_any

\* The contents an item is drawn from: media_type as stored (NULL, a name, a
\* legacy number, an empty or unknown string), media_file_id ("" for none)
\* and text ("" for none).
MediaChoices ==
    [media_type : {MediaNull, "text", "photo", "voice", "1", "7", "", "sticker"},
     media_file_id : {"", "file"},
     text : {"", "hello"}]

\* send_static_messages with the content of the items: for each due pair the
\* calls of the loop body; a call that raises ends the body of that pair
\* before mark_static_message_sent.
send_static_messages_media ==
    /\ now < Horizon
    /\ \E fseq \in {get_users}, st \in {ParsedSendTimes} :
       \E fetched \in {{fseq[i] : i \in 1..Len(fseq)}} :
       \E due \in {DuePairsOf(fetched, st, static_messages_sent, now)} :
       \E failing \in SubsetsUpTo({p \in due : MessengerCalls(item_media[p[2]]) # <<>>},
                                  MaxFailures - failures) :
       \E at \in [failing -> 1..2] :
       \E sent \in {LedgerAfter(static_messages_sent, due, failing)} :
            /\ \A p \in failing : at[p] <= Len(MessengerCalls(item_media[p[2]]))
            /\ static_messages_sent' = sent
            /\ sent_rows' = MarkAll(sent_rows, due \ failing)
            /\ send_ok' = [p \in DOMAIN send_ok |->
                  IF p \in due \ failing THEN send_ok[p] + 1 ELSE send_ok[p]]
            /\ send_failed' = [p \in DOMAIN send_failed |->
                  IF p \in failing THEN send_failed[p] + 1 ELSE send_failed[p]]
            /\ failures' = failures + Cardinality(failing)
            /\ media_log' = [p \in due |->
                  [calls |-> IF p \in failing
                             THEN SubSeq(MessengerCalls(item_media[p[2]]), 1, at[p])
                             ELSE MessengerCalls(item_media[p[2]]),
                   raised |-> p \in failing]]
            /\ swept' = [swept EXCEPT !.drip = EvaluablePairs(fetched),
                                      !.drip_error = {}]
            /\ \E open \in {OpenPairs(fetched, sent)} :
                  now' = NextTick(open, st, now)
    /\ UNCHANGED <<outages, users, static_messages, item_media>>
    /\ UNCHANGED <<scheduled_messages, broadcast_sends, store_errors,
                   admin_calls, viewed_calls>>
    /\ UNCHANGED <<answer_rows, answer_calls, invite_links, invite_code,
                   start_calls, bulk_calls, crashes, request_vars,
                   callback_vars, session_vars>>
    /\ UNCHANGED onb_vars

\* Two day-0 items of any content.
MediaInit ==
    /\ NoOnboarding
    /\ IdleProcess
    /\ NoLinks
    /\ now = 0
    /\ outages = 0
    /\ users = [u \in UserIds |-> NoRow]
    /\ static_messages = [m \in ItemIds |->
          [day_number |-> 0, send_time |-> <<>>, additional_minutes |-> 0,
           is_active |-> 1]]
    /\ static_messages_sent = {}
    /\ send_ok = [p \in UserIds \X ItemIds |-> 0]
    /\ send_failed = [p \in UserIds \X ItemIds |-> 0]
    /\ failures = 0
    /\ item_media \in [ItemIds -> MediaChoices]
    /\ media_log = <<>>
    /\ NoSessions

MediaNext ==
    \/ send_static_messages_media
    \/ UserArrives

SpecMedia == MediaInit /\ [][MediaNext]_vars

(***************************************************************************)
(* The delivery paths while the admin bans users.                          *)
(***************************************************************************)
\* POST /api/users/ban for one user: UPDATE users SET is_banned = 1.
ban_user(u) ==
    /\ users[u] # NoRow
    /\ users[u].is_banned = 0
    /\ users' = [users EXCEPT ![u].is_banned = 1]
    /\ last_event' = ViewedEvent("ban_user", u, 0)
    /\ UNCHANGED <<now, outages, static_messages, static_messages_sent,
                   send_ok, send_failed, failures>>
    /\ UNCHANGED <<user_questions, user_onboarding_state, user_answers,
                   join_requests, auto_approve_mode, questions_sent, processed,
                   orderly>>
    /\ UNCHANGED <<ops_vars, store_vars>>

BanNext ==
    \/ send_static_messages
    \/ UserArrives
    \/ \E u \in DOMAIN users : ban_user(u)
    \/ \E u \in DOMAIN users, m \in DOMAIN static_messages : handle_viewed_button(u, m)
    \/ \E call \in viewed_calls : send_next_message(call)
    \/ \E call \in viewed_calls : mark_next_message(call)

SpecBan == ViewedInit /\ [][BanNext]_vars

(***************************************************************************)
(* Answers under concurrent handlers.  The dispatcher runs each update as  *)
(* its own task: a handler that stores an answer is two steps, up to the   *)
(* SELECT of add_user_answer, and from its write to the end of the handler.*)
(***************************************************************************)
AnswerValues == {"yes", "no"}

\* The rows of the table as the set the handlers read.
RowSet(rows) == {rows[i] : i \in DOMAIN rows}

\* add_user_answer: SELECT id FROM user_answers WHERE user_id = ? AND
\* question_id = ?, fetchone.
existing(rows, u, q) ==
    \E i \in DOMAIN rows : rows[i].user_id = u /\ rows[i].question_id = q

\* add_user_answer after the SELECT: UPDATE the rows of (user, question) when
\* a row was found, INSERT a row otherwise; the table has no UNIQUE
\* constraint on (user_id, question_id).
write_user_answer(rows, call) ==
    IF call.existing
    THEN [i \in DOMAIN rows |->
            IF rows[i].user_id = call.user /\ rows[i].question_id = call.question_id
            THEN [rows[i] EXCEPT !.answer_text = call.answer_text]
            ELSE rows[i]]
    ELSE Append(rows, [user_id |-> call.user, question_id |-> call.question_id,
                       answer_text |-> call.answer_text])

\* handle_answer_button up to the SELECT of add_user_answer.
select_user_answer(u, q, value) ==
    /\ Len(questions_sent[u]) + Cardinality(answer_calls) < MaxDispatches
    /\ Len(answer_rows) + Cardinality(answer_calls) < MaxAnswerRows
    /\ Cardinality(answer_calls) < MaxAnswerCalls
    /\ \E id \in {CHOOSE i \in 1..MaxAnswerCalls :
                     \A call \in answer_calls : call.id # i} :
        answer_calls' = answer_calls \cup
            {[id |-> id, user |-> u, question_id |-> q, answer_text |-> value,
              existing |-> existing(answer_rows, u, q)]}
    /\ UNCHANGED <<drip_vars, onb_vars, ops_vars>>
    /\ UNCHANGED <<answer_rows, invite_links, invite_code, start_calls, bulk_calls,
                   aux_vars>>

\* handle_answer_button from the write of add_user_answer on: commit the
\* row, acknowledge, send_next_question.
store_user_answer(call) ==
    /\ call \in answer_calls
    /\ \E bad \in FailureChoices({SiteAck}) :
       \E raised \in IF SiteAck \in bad THEN BOOLEAN ELSE {FALSE} :
        LET rows == write_user_answer(answer_rows, call)
            S1 == [Store EXCEPT !.answers = RowSet(rows)]
            S2 == IF SiteAck \in bad
                  THEN Messenger(S1, SiteAck, bad)
                  ELSE send_next_question(S1, call.user, call.question_id, bad)
        IN  /\ answer_rows' = rows
            /\ Commit(S2)
            /\ orderly' = [orderly EXCEPT ![call.user] =
                              @ /\ Awaiting(call.user, call.question_id)]
            /\ last_event' = Outcome(Event("button", call.user, call.question_id, FALSE),
                                      0, S2, raised)
    /\ answer_calls' = answer_calls \ {call}
    /\ UNCHANGED <<now, outages, users, static_messages, static_messages_sent,
                   send_ok, send_failed, user_questions, auto_approve_mode>>
    /\ UNCHANGED <<ops_vars, invite_links, invite_code, start_calls, bulk_calls,
                   aux_vars>>

AnswersInit ==
    /\ JoinStart(UserIds, ChatIds)
    /\ NoLinks
    /\ auto_approve_mode = "after_messages"

AnswersNext ==
    \/ \E u \in UserIds : cmd_start(u)
    \/ \E u \in UserIds, q \in QuestionIds, value \in AnswerValues :
          select_user_answer(u, q, value)
    \/ \E call \in answer_calls : store_user_answer(call)

SpecAnswers == AnswersInit /\ [][AnswersNext]_vars

(***************************************************************************)
(* Invite links and the acquisition code of a user.  The admin panel runs  *)
(* in its own process: a /start that carries a code is two steps, the      *)
(* lookup of the link, and the handler from db.add_user on.                *)
(***************************************************************************)
\* The codes the admin creates links for, and the codes a deep link may
\* carry: one of them names no link at any time.
Codes == {"promo"}
DeepLinkCodes == Codes \cup {"typo"}

\* The invite_code of a user who came with no code (NULL).
NoCode == ""

\* Database.get_invite_link_by_code: the row or None.
get_invite_link_by_code(code) ==
    IF code \in DOMAIN invite_links THEN invite_links[code] ELSE NoRow

\* A /start that passes the code on without looking at the link.
UncheckedCode(call) == call.code

\* cmd_start: invite_code after the validation of the link that was read.
ValidatedCode(call) ==
    IF call.invite_link = NoRow \/ call.invite_link.is_active = 0
    THEN NoCode
    ELSE call.code

\* Database.add_user, column invite_code: written by the INSERT, left alone
\* by ON CONFLICT(user_id) DO UPDATE.
add_user_invite_code(u, code) ==
    IF u \in DOMAIN invite_code /\ users[u] = NoRow
    THEN [invite_code EXCEPT ![u] = code]
    ELSE invite_code

LinksFrame ==
    /\ UNCHANGED <<drip_vars, onb_vars, ops_vars>>
    /\ UNCHANGED <<answer_rows, answer_calls, invite_code, start_calls, bulk_calls,
                   aux_vars>>

\* POST /api/invite-links/create: refused when the code exists.
create_invite_link(code) ==
    /\ get_invite_link_by_code(code) = NoRow
    /\ invite_links' = [invite_links EXCEPT ![code] = [is_active |-> 1]]
    /\ LinksFrame

\* POST /api/invite-links/{link_id}/toggle.
toggle_invite_link(code) ==
    /\ get_invite_link_by_code(code) # NoRow
    /\ invite_links' = [invite_links EXCEPT ![code].is_active = 1 - @]
    /\ LinksFrame

\* DELETE /api/invite-links/{link_id}.
delete_invite_link(code) ==
    /\ get_invite_link_by_code(code) # NoRow
    /\ invite_links' = [invite_links EXCEPT ![code] = NoRow]
    /\ LinksFrame

\* cmd_start up to db.get_invite_link_by_code, for a /start that carries a
\* code.
lookup_invite_link(u, code) ==
    /\ Len(questions_sent[u]) < MaxDispatches
    /\ Cardinality(start_calls) < MaxStartCalls
    /\ \E id \in {CHOOSE i \in 1..MaxStartCalls :
                     \A call \in start_calls : call.id # i} :
        start_calls' = start_calls \cup
            {[id |-> id, user |-> u, code |-> code,
              invite_link |-> get_invite_link_by_code(code)]}
    /\ UNCHANGED <<drip_vars, onb_vars, ops_vars>>
    /\ UNCHANGED <<answer_rows, answer_calls, invite_links, invite_code, bulk_calls,
                   aux_vars>>

\* cmd_start from the validation of the link on.
cmd_start_link(call) ==
    /\ call \in start_calls
    /\ start_command(call.user)
    /\ invite_code' = add_user_invite_code(call.user, ValidatedCode(call))
    /\ start_calls' = start_calls \ {call}
    /\ UNCHANGED <<now, outages, static_messages, static_messages_sent,
                   send_ok, send_failed, user_questions, auto_approve_mode>>
    /\ UNCHANGED <<ops_vars, answer_rows, answer_calls, invite_links, bulk_calls,
                   aux_vars>>

LinksInit ==
    /\ JoinStart(UserIds, ChatIds)
    /\ auto_approve_mode \in {"off", "after_messages"}
    /\ invite_links = [code \in Codes |-> NoRow]
    /\ invite_code = [u \in UserIds |-> NoCode]

LinksNext ==
    \/ \E code \in Codes : create_invite_link(code)
    \/ \E code \in Codes : toggle_invite_link(code)
    \/ \E code \in Codes : delete_invite_link(code)
    \/ \E u \in UserIds : cmd_start(u)
    \/ \E u \in UserIds, code \in DeepLinkCodes : lookup_invite_link(u, code)
    \/ \E call \in start_calls : cmd_start_link(call)

SpecLinks == LinksInit /\ [][LinksNext]_vars

\* The registry while users repeat /start and join channels, the admin bans
\* them and time passes.
UpsertNext ==
    \/ \E code \in Codes : create_invite_link(code)
    \/ \E code \in Codes : toggle_invite_link(code)
    \/ \E code \in Codes : delete_invite_link(code)
    \/ \E u \in UserIds : cmd_start(u)
    \/ \E u \in UserIds, code \in DeepLinkCodes : lookup_invite_link(u, code)
    \/ \E call \in start_calls : cmd_start_link(call)
    \/ \E u \in DOMAIN users : on_user_join(u)
    \/ \E u \in DOMAIN users : ban_user(u)
    \/ SchedulerOutage

SpecUpsert == LinksInit /\ [][UpsertNext]_vars

(***************************************************************************)
(* The join_requests table under concurrent writers: the bot's             *)
(* on_join_request and the admin's import run add_join_request, each on    *)
(* its own connection; the SELECT and the upsert are separate statements.  *)
(***************************************************************************)
\* add_join_request: SELECT id FROM join_requests WHERE user_id = ? AND
\* chat_id = ?, fetchone() is not None.
request_exists(rows, u, c) ==
    \E i \in DOMAIN rows : rows[i].user_id = u /\ rows[i].chat_id = c

\* add_join_request: INSERT ... VALUES (..., 'pending') ON CONFLICT(user_id,
\* chat_id) DO UPDATE SET status = 'pending', processed_date = NULL, under
\* UNIQUE(user_id, chat_id).
upsert_join_request(rows, u, c) ==
    IF request_exists(rows, u, c)
    THEN [i \in DOMAIN rows |->
            IF rows[i].user_id = u /\ rows[i].chat_id = c
            THEN [rows[i] EXCEPT !.status = "pending", !.processed_date = None]
            ELSE rows[i]]
    ELSE Append(rows, [user_id |-> u, chat_id |-> c, status |-> "pending",
                       processed_date |-> None])

RequestsFrame == UNCHANGED <<core_vars, media_vars, callback_vars, session_vars>>

\* add_join_request up to the end of its SELECT.
select_join_request(u, c) ==
    /\ Cardinality(request_calls) < MaxRequestCalls
    /\ \E id \in {CHOOSE i \in 1..MaxRequestCalls :
                     \A call \in request_calls : call.id # i} :
        request_calls' = request_calls \cup
            {[id |-> id, user_id |-> u, chat_id |-> c,
              exists |-> request_exists(request_rows, u, c)]}
    /\ UNCHANGED <<request_rows, is_new>>
    /\ RequestsFrame

\* add_join_request from its INSERT on: the upsert, the commit and
\* return not exists.
write_join_request(call) ==
    /\ call \in request_calls
    /\ request_rows' = upsert_join_request(request_rows, call.user_id, call.chat_id)
    /\ is_new' = [user_id |-> call.user_id, chat_id |-> call.chat_id,
                  is_new |-> ~call.exists]
    /\ request_calls' = request_calls \ {call}
    /\ RequestsFrame

\* Database.approve_join_request / deny_join_request: UPDATE join_requests SET
\* status = ?, processed_date = CURRENT_TIMESTAMP WHERE id = ?.
process_join_request(i, status) ==
    /\ i \in DOMAIN request_rows
    /\ request_rows[i].status = "pending"
    /\ request_rows' = [request_rows EXCEPT ![i].status = status,
                                            ![i].processed_date = now]
    /\ UNCHANGED <<request_calls, is_new>>
    /\ RequestsFrame

RequestsInit ==
    /\ JoinStart(UserIds, JoinChats)
    /\ NoLinks
    /\ auto_approve_mode = "off"

RequestsNext ==
    \/ \E u \in UserIds, c \in JoinChats : select_join_request(u, c)
    \/ \E call \in request_calls : write_join_request(call)
    \/ \E i \in DOMAIN request_rows, status \in {"approved", "denied"} :
          process_join_request(i, status)

SpecRequests == RequestsInit /\ [][RequestsNext]_vars

(***************************************************************************)
(* The payload of an option button, as send_question builds it and         *)
(* handle_answer_button decodes it.  Strings are sequences of characters.  *)
(***************************************************************************)
RECURSIVE str(_)
\* str(n) for n >= 0.
str(n) ==
    IF n < 10 THEN <<Digits[n + 1]>>
    ELSE str(n \div 10) \o <<Digits[(n % 10) + 1]>>

RECURSIVE split(_, _, _)
\* s.split(sep, maxsplit).
split(s, sep, maxsplit) ==
    LET found == {i \in 1..Len(s) : s[i] = sep}
    IN  IF maxsplit = 0 \/ found = {} THEN <<s>>
        ELSE LET i == CHOOSE x \in found : \A y \in found : x <= y
             IN  <<SubSeq(s, 1, i - 1)>>
                    \o split(SubSeq(s, i + 1, Len(s)), sep, maxsplit - 1)

\* A decoder that splits at every underscore.
SplitEverywhere(data) == Split(data, "_")

\* handle_answer_button: parts = callback.data.split("_", 2).
SplitPayload(data) == split(data, "_", 2)

\* send_question: callback_data = f"answer_{question_id}_{option}".
callback_data(question_id, option) ==
    <<"a", "n", "s", "w", "e", "r", "_">> \o str(question_id) \o <<"_">> \o option

\* handle_answer_button: question_id = int(parts[1]).
question_id_of(data) == IntValue(SplitPayload(data)[2])

\* handle_answer_button: answer_value = parts[2] if len(parts) > 2 else "".
answer_value_of(data) ==
    LET parts == SplitPayload(data)
    IN  IF Len(parts) > 2 THEN parts[3] ELSE <<>>

\* The ids of the questions whose buttons are sent, of one to three digits.
ButtonQuestionIds == {1, 9, 10, 27, 100, 305}

\* The entries of an options list as stored, before strip().
OptionChars == {"a", "1", "_", " "}
RawOptions == UNION {[1..n -> OptionChars] : n \in 1..MaxOptionLen}

CallbackFrame == UNCHANGED <<core_vars, request_vars, media_vars, session_vars>>

\* send_question, the loop over options_list for one entry: strip it, skip
\* it when empty, build the button.
send_question_button(question_id, raw) ==
    /\ Strip(raw) # <<>>
    /\ callback' = [question_id |-> question_id, option |-> Strip(raw),
                    data |-> callback_data(question_id, Strip(raw)),
                    pressed |-> FALSE, parsed_id |-> 0, answer_value |-> <<>>]
    /\ CallbackFrame

\* handle_answer_button up to the decoding of callback.data, for the button
\* sent last.
decode_answer_button ==
    /\ callback # NoRow
    /\ ~callback.pressed
    /\ callback' = [callback EXCEPT !.pressed = TRUE,
                                    !.parsed_id = question_id_of(callback.data),
                                    !.answer_value = answer_value_of(callback.data)]
    /\ CallbackFrame

CallbackNext ==
    \/ \E question_id \in ButtonQuestionIds, raw \in RawOptions :
          send_question_button(question_id, raw)
    \/ decode_answer_button

SpecCallback == RequestsInit /\ [][CallbackNext]_vars

(***************************************************************************)
(* Admin sessions.  created_at is SQLite's CURRENT_TIMESTAMP, which is     *)
(* UTC; verify_session compares it with datetime.now(), the local time of  *)
(* the host.                                                               *)
(***************************************************************************)
MinutesPerHour == MinutesPerDay \div 24

\* timedelta(hours=SESSION_EXPIRY_HOURS), in minutes.
SessionExpiry == SESSION_EXPIRY_HOURS * MinutesPerHour

\* The time zones of the hosts the model takes: UTC-5, UTC and UTC+3.
UtcOffsets == {0 - 5 * MinutesPerHour, 0, 3 * MinutesPerHour}

\* The lengths of time that pass between two requests.
RequestGaps == {3 * MinutesPerHour, SessionExpiry}

\* datetime.now(): the naive local time of the host.
datetime_now == now + utc_offset

\* Database.get_session.
get_session(session_token) ==
    IF session_token \in DOMAIN sessions THEN sessions[session_token] ELSE NoRow

\* Database.delete_session.
delete_session(rows, session_token) ==
    [t \in DOMAIN rows |-> IF t = session_token THEN NoRow ELSE rows[t]]

\* Database.cleanup_expired_sessions: DELETE ... WHERE created_at <
\* datetime('now', '-24 hours'), both sides UTC.
cleanup_expired_sessions(rows) ==
    [t \in DOMAIN rows |->
        IF rows[t] # NoRow /\ rows[t].created_at < now - SessionExpiry
        THEN NoRow ELSE rows[t]]

\* verify_session: the session is expired.
expired(session_data) == datetime_now - session_data.created_at > SessionExpiry

SessionsFrame == UNCHANGED <<core_vars, request_vars, media_vars, callback_vars>>

\* POST /login with valid credentials: a fresh random token
\* (secrets.token_urlsafe), create_session, then cleanup_sessions.
login ==
    /\ issued < MaxSessions
    /\ sessions' = cleanup_expired_sessions(
                      [sessions EXCEPT ![issued + 1] = [created_at |-> now]])
    /\ issued' = issued + 1
    /\ UNCHANGED <<verified, utc_offset>>
    /\ SessionsFrame

\* verify_session for a request whose cookie holds session_token: no row,
\* False; an expired row is deleted, False; True otherwise.
verify_session(session_token) ==
    /\ session_token \in 1..issued
    /\ \E session_data \in {get_session(session_token)} :
        /\ sessions' = IF session_data # NoRow /\ expired(session_data)
                       THEN delete_session(sessions, session_token)
                       ELSE sessions
        /\ verified' = [session_token |-> session_token,
                        result |-> session_data # NoRow /\ ~expired(session_data),
                        flip |-> IF verified = NoRow THEN FALSE ELSE ~verified.flip]
    /\ UNCHANGED <<issued, utc_offset>>
    /\ SessionsFrame

\* GET /logout with the cookie's token.
logout(session_token) ==
    /\ session_token \in 1..issued
    /\ sessions' = delete_session(sessions, session_token)
    /\ UNCHANGED <<issued, verified, utc_offset>>
    /\ SessionsFrame

\* Time passes between two requests.
TimePasses ==
    /\ \E d \in RequestGaps :
          /\ now + d <= Horizon
          /\ now' = now + d
    /\ UNCHANGED <<outages, users, static_messages, static_messages_sent,
                   send_ok, send_failed, failures>>
    /\ UNCHANGED <<onb_vars, ops_vars, store_vars>>

SessionsInit ==
    /\ NoOnboarding
    /\ IdleProcess
    /\ NoMedia
    /\ NoLinks
    /\ now = 0
    /\ outages = 0
    /\ users = [u \in UserIds |-> NoRow]
    /\ static_messages = [m \in ItemIds |-> CHOOSE c \in ItemChoices : TRUE]
    /\ static_messages_sent = {}
    /\ send_ok = [p \in UserIds \X ItemIds |-> 0]
    /\ send_failed = [p \in UserIds \X ItemIds |-> 0]
    /\ failures = 0
    /\ sessions = [t \in 1..MaxSessions |-> NoRow]
    /\ issued = 0
    /\ verified = NoRow
    /\ utc_offset \in UtcOffsets

SessionsNext ==
    \/ login
    \/ \E session_token \in DOMAIN sessions : verify_session(session_token)
    \/ \E session_token \in DOMAIN sessions : logout(session_token)
    \/ TimePasses

SpecSessions == SessionsInit /\ [][SessionsNext]_vars

(***************************************************************************)
(* The onboarding engine while the admin edits the question catalog.       *)
(***************************************************************************)
\* POST /api/user-questions/{question_id}/toggle: Database.toggle_user_question.
toggle_user_question(q) ==
    /\ user_questions[q] # NoRow
    /\ user_questions' = [user_questions EXCEPT ![q].is_active = 1 - @]
    /\ last_event' = Event("toggle", 0, q, FALSE)
    /\ UNCHANGED <<drip_vars, ops_vars, store_vars>>
    /\ UNCHANGED <<user_onboarding_state, user_answers, join_requests,
                   auto_approve_mode, questions_sent, processed, orderly>>

\* Every question active, asked in the reverse of the storage order, in
\* mode after_messages.
CatalogInit ==
    /\ OnbInit
    /\ auto_approve_mode = "after_messages"
    /\ \A q \in QuestionIds :
          /\ user_questions[q].is_active = 1
          /\ user_questions[q].order_number = OrderReversed[q]

CatalogNext ==
    \/ \E u \in UserIds : JoinTurn(u) /\ cmd_start(u)
    \/ \E u \in UserIds : JoinTurn(u) /\ handle_text_message(u)
    \/ \E u \in UserIds : JoinTurn(u) /\ handle_answer_button(u)
    \/ \E q \in QuestionIds : toggle_user_question(q)

SpecCatalog == CatalogInit /\ [][CatalogNext]_vars

\* The question the admin switches on and off.
FirstQuestion == CHOOSE q \in QuestionIds : \A r \in QuestionIds : q <= r

\* The bot's handlers in mode after_messages while the admin switches the
\* first question on and off, from a catalog with that question active or
\* none.
StartInit ==
    /\ LedgerInit
    /\ auto_approve_mode = "after_messages"

StartNext ==
    \/ \E u \in UserIds : JoinTurn(u) /\ cmd_start(u)
    \/ \E u \in UserIds : JoinTurn(u) /\ handle_text_message(u)
    \/ \E u \in UserIds : JoinTurn(u) /\ handle_answer_button(u)
    \/ \E u \in UserIds : JoinTurn(u) /\ on_join_request(u)
    \/ toggle_user_question(FirstQuestion)

SpecStart == StartInit /\ [][StartNext]_vars

(***************************************************************************)
(* Approve-all and deny-all.  The handler reads the pending rows a batch   *)
(* at a time; one step is one turn of its while loop.                      *)
(***************************************************************************)
\* batch_size = 100.
BatchSize == 100

\* The numbers of pending rows the handler is started on: none, a few, one
\* batch, and more than one and more than two batches.
BulkSizes == (0..2) \cup (99..102) \cup (199..MaxPending)

\* Database.get_join_requests(status='pending', limit, offset): the pending
\* rows ORDER BY request_date DESC (later rows have greater ids), LIMIT
\* limit OFFSET offset: the rows with offset to offset + limit - 1 pending
\* rows before them.
get_join_requests(requests, limit, offset) ==
    LET pending == {k \in DOMAIN requests :
                       requests[k] # NoRow /\ requests[k].status = "pending"}
        ids == {k[1] : k \in pending}
    IN  {k \in pending :
            LET before == Cardinality({i \in ids : i > k[1]})
            IN  offset <= before /\ before < offset + limit}

\* The Messenger failures a batch may meet: none, or one on its first row.
BatchFailures(batch) ==
    {{}} \cup IF failures < MaxFailures
              THEN {{k} : k \in {j \in batch : \A i \in batch : i[1] <= j[1]}}
              ELSE {}

BulkFrame ==
    /\ UNCHANGED <<now, outages, users, static_messages, static_messages_sent,
                   send_ok, send_failed>>
    /\ UNCHANGED <<user_questions, user_onboarding_state, user_answers,
                   auto_approve_mode, questions_sent, processed, orderly>>
    /\ UNCHANGED <<ops_vars, answer_rows, answer_calls, invite_links, invite_code,
                   start_calls, aux_vars>>

\* approve_all_join_requests / deny_all_join_requests up to the while loop.
bulk_begin(kind) ==
    /\ bulk_calls = {}
    /\ bulk_calls' = {[kind |-> kind, offset |-> 0, success_count |-> 0,
                       fail_count |-> 0]}
    /\ last_event' = Event(kind, 0, 0, FALSE)
    /\ UNCHANGED <<failures, join_requests>>
    /\ BulkFrame

\* One turn of the while loop: read a batch; when it is empty leave the loop
\* and return, otherwise call the Messenger for each row, write the rows
\* whose call returned, and move the offset on by batch_size.
bulk_batch(call) ==
    /\ call \in bulk_calls
    /\ \E pending_requests \in
             {get_join_requests(join_requests, BatchSize, call.offset)} :
           IF pending_requests = {}
           THEN /\ bulk_calls' = bulk_calls \ {call}
                /\ UNCHANGED <<failures, join_requests>>
           ELSE \E raised \in BatchFailures(pending_requests) :
                /\ join_requests' =
                      [k \in DOMAIN join_requests |->
                          IF k \in pending_requests \ raised
                          THEN IF call.kind = "approve_all"
                               THEN approve_join_request(join_requests, k)[k]
                               ELSE deny_join_request(join_requests, k)[k]
                          ELSE join_requests[k]]
                /\ failures' = failures + Cardinality(raised)
                /\ bulk_calls' = (bulk_calls \ {call}) \cup
                      {[call EXCEPT
                          !.offset = @ + BatchSize,
                          !.success_count = @ + Cardinality(pending_requests \ raised),
                          !.fail_count = @ + Cardinality(raised)]}
    /\ last_event' = Event(call.kind, 0, 0, FALSE)
    /\ BulkFrame

\* A ledger of n pending rows, one per user, for one chat.
BulkInit ==
    /\ NoOperations
    /\ NoLinks
    /\ now = 0
    /\ outages = 0
    /\ users = [u \in UserIds |-> NoRow]
    /\ static_messages = [m \in ItemIds |-> CHOOSE c \in ItemChoices : TRUE]
    /\ static_messages_sent = {}
    /\ send_ok = [p \in UserIds \X ItemIds |-> 0]
    /\ send_failed = [p \in UserIds \X ItemIds |-> 0]
    /\ failures = 0
    /\ user_questions = [q \in QuestionIds |-> NoRow]
    /\ user_onboarding_state = [u \in UserIds |-> NoRow]
    /\ user_answers = {}
    /\ \E n \in BulkSizes :
          join_requests = [k \in (1..n) \X ChatIds |-> [status |-> "pending"]]
    /\ auto_approve_mode = "off"
    /\ questions_sent = [u \in UserIds |-> <<>>]
    /\ processed = [u \in UserIds |-> {}]
    /\ orderly = [u \in UserIds |-> TRUE]
    /\ last_event = Event("none", 0, 0, FALSE)

BulkNext ==
    \/ bulk_begin("approve_all")
    \/ bulk_begin("deny_all")
    \/ \E call \in bulk_calls : bulk_batch(call)

SpecBulk == BulkInit /\ [][BulkNext]_vars

(***************************************************************************)
(* Properties of the drip scheduler.                                       *)
(***************************************************************************)
Pairs == UserIds \X ItemIds

Registered(u) == users[u] # NoRow

\* Send attempts the scheduler has made for a pair.
Attempts(p) == send_ok[p] + send_failed[p]

\* The trigger time of a day-1+ item for a user, as the design states it:
\* (join date + dayNumber days) at send_time, plus additionalMinutes.
TriggerTime(u, m) ==
    LET st == EffectiveSendTime(static_messages[m])
    IN  (users[u].join_date \div MinutesPerDay + static_messages[m].day_number)
            * MinutesPerDay
        + st.hour * 60 + st.minute + static_messages[m].additional_minutes

\* C1: exactly-once per pair: every pair the scheduler has attempted (its
\* send-window predicate was true on a tick) has a DeliveryRecord after that
\* tick, and no tick makes a second send attempt for it.
ExactlyOncePerPair ==
    \A p \in Pairs :
        Attempts(p) >= 1 => (p \in static_messages_sent /\ Attempts(p) = 1)

\* C2: a pair whose Messenger send failed has its DeliveryRecord written in
\* the same tick.
FailedSendStillRecorded ==
    \A p \in Pairs : send_failed[p] >= 1 => p \in static_messages_sent

\* C3: with a tick every minute, every send succeeding and the user not
\* banned, every active item with dayNumber >= 1 and a well-formed send_time
\* is delivered to every user: it is in the ledger once its day has passed
\* (after which the sweep no longer considers it).
EveryItemEventuallyDelivered ==
    \A u \in UserIds, m \in ItemIds :
        ( /\ Registered(u)
          /\ users[u].is_banned = 0
          /\ outages = 0
          /\ failures = 0
          /\ static_messages[m].is_active # 0
          /\ static_messages[m].day_number >= 1
          /\ EffectiveSendTime(static_messages[m]).ok
          /\ now >= users[u].join_date
                      + (static_messages[m].day_number + 1) * MinutesPerDay )
        => <<u, m>> \in static_messages_sent

\* C4: the day-N window is bounded: a tick at instant now attempts a send of
\* an item with dayNumber >= 1 only if triggerTime <= now < triggerTime + 5
\* minutes, and a pair still undelivered at or after triggerTime + 5 minutes
\* stays undelivered.
DayNWindowBounded ==
    [][ \A u \in UserIds, m \in ItemIds :
          (Registered(u) /\ static_messages[m].day_number >= 1) =>
            /\ Attempts(<<u, m>>)' > Attempts(<<u, m>>) =>
                  /\ EffectiveSendTime(static_messages[m]).ok
                  /\ TriggerTime(u, m) <= now
                  /\ now < TriggerTime(u, m) + 5
            /\ ( /\ EffectiveSendTime(static_messages[m]).ok
                 /\ now >= TriggerTime(u, m) + 5
                 /\ <<u, m>> \notin static_messages_sent )
               => <<u, m>> \notin static_messages_sent' ]_vars

\* C4 witness: an item with dayNumber >= 1 was sent in its window to one
\* user, and a tick has run past the window of another pair left undelivered.
DayNSentInWindow ==
    \E u \in UserIds, m \in ItemIds :
        /\ Registered(u)
        /\ static_messages[m].day_number >= 1
        /\ send_ok[<<u, m>>] = 1
        /\ now >= TriggerTime(u, m) + 5

\* The instants at which the day-0 predicate is probed for a user who joined
\* at T and an offset of a minutes: the current instant and the ends of
\* [T + a, T + 1 day).
Day0Probes(T, a) ==
    {now, T, T + a - 1, T + a, T + a + 1, T + MinutesPerDay - 1}

\* C5: the day-0 window is open-ended: for an item with dayNumber = 0 and
\* additionalMinutes = a, a user who joined at T is eligible at every
\* instant t with T + a <= t < T + 1 day and at no instant before T + a.
Day0WindowOpenEnded ==
    \A u \in UserIds, m \in ItemIds :
        (Registered(u) /\ static_messages[m].day_number = 0) =>
            LET T == users[u].join_date
                a == static_messages[m].additional_minutes
            IN  \A t \in Day0Probes(T, a) :
                    /\ (T + a <= t /\ t < T + MinutesPerDay) => SendWindow(u, m, t)
                    /\ (T <= t /\ t < T + a) => ~SendWindow(u, m, t)

\* C5 witness: a day-0 item with a positive offset was sent to a user, at or
\* after join time + offset.
Day0SentAfterOffset ==
    \E u \in UserIds, m \in ItemIds :
        /\ Registered(u)
        /\ static_messages[m].day_number = 0
        /\ static_messages[m].additional_minutes > 0
        /\ send_ok[<<u, m>>] = 1
        /\ now > users[u].join_date + static_messages[m].additional_minutes

(***************************************************************************)
(* Properties of the onboarding engine.                                    *)
(***************************************************************************)
HasState(u) == user_onboarding_state[u] # NoRow

Completed(u) == HasState(u) /\ user_onboarding_state[u].completed

Cursor(u) == user_onboarding_state[u].current_question_id

OrderOf(q) == user_questions[q].order_number

\* C6: stale answer rejection: a button answer for question A handled while
\* the user's current_question_id is a question B # A leaves the user's
\* OnboardingState as it was (so it does not complete onboarding) and sends
\* no question.
StaleAnswerRejected ==
    [][ \A u \in UserIds :
          ( /\ last_event'.kind = "button"
            /\ last_event'.user = u
            /\ HasState(u)
            /\ Cursor(u) # 0
            /\ Cursor(u) # last_event'.question_id )
          => /\ user_onboarding_state'[u] = user_onboarding_state[u]
             /\ questions_sent'[u] = questions_sent[u] ]_vars

\* C7: the transition to Completed clears the stored current_question_id.
CompletionClearsCursor ==
    [][ \A u \in UserIds :
          (~Completed(u) /\ Completed(u)') =>
              user_onboarding_state'[u].current_question_id = 0 ]_vars

\* C8: once a user's completion timestamp is set, no later event sends that
\* user a question.
NoQuestionAfterCompletion ==
    [][ \A u \in UserIds :
          Completed(u) => questions_sent'[u] = questions_sent[u] ]_vars

\* The questions sent to u are active ones, in strictly ascending
\* order_number, none sent twice and none skipped.
AskedInOrder(u) ==
    LET s == questions_sent[u]
    IN  /\ \A i \in 1..Len(s) : s[i] \in ActiveQuestionIds
        /\ \A i, j \in 1..Len(s) : i < j => OrderOf(s[i]) < OrderOf(s[j])
        /\ \A i \in 1..Len(s), q \in ActiveQuestionIds :
              OrderOf(q) < OrderOf(s[i]) => \E j \in 1..(i - 1) : s[j] = q

\* u is Completed exactly when the answer to an active question of the
\* highest order_number has been processed.
CompletedAfterLast(u) ==
    Completed(u) <=>
        \E q \in processed[u] \cap ActiveQuestionIds :
            \A r \in ActiveQuestionIds : OrderOf(r) <= OrderOf(q)

DistinctOrderNumbers ==
    \A q, r \in ActiveQuestionIds : q # r => OrderOf(q) # OrderOf(r)

ReentrantStartIsNoOp ==
    [][ \A u \in UserIds, q \in QuestionIds :
          ( /\ Awaiting(u, q)
            /\ get_user_questions # <<>>
            /\ q # get_user_questions[1]
            /\ last_event'.started
            /\ last_event'.user = u )
          => /\ user_onboarding_state'[u].current_question_id = q
             /\ questions_sent'[u] = questions_sent[u] ]_vars

(***************************************************************************)
(* Properties of the sweeps.                                               *)
(***************************************************************************)
\* The step is a run of the drip sweep (the only step that moves the clock
\* without an outage).
DripSweepStep == now' > now /\ outages' = outages

NonBanned(u) == users[u] # NoRow /\ users[u].is_banned = 0

\* C11: both sweeps cover the whole registry: a tick that marks a due
\* broadcast sent has attempted a send to every non-banned registered user,
\* and a drip tick that met no Store error has evaluated every non-banned
\* registered user against every active content item.
SweepsCoverRegistry ==
    [][ /\ \A b \in DOMAIN scheduled_messages :
              ( /\ scheduled_messages[b] # NoRow
                /\ scheduled_messages[b].is_sent = 0
                /\ scheduled_messages'[b].is_sent = 1 )
              => \A u \in DOMAIN users :
                    NonBanned(u) => <<b, u>> \in swept'.broadcast
        /\ (DripSweepStep /\ swept'.drip_error = {})
              => \A u \in DOMAIN users, m \in DOMAIN static_messages :
                    (NonBanned(u) /\ static_messages[m].is_active # 0)
                        => <<u, m>> \in swept'.drip ]_vars

\* C12: broadcast mark-once: a tick that issued sends for a broadcast and
\* met no Store error in its iteration, or ran its iteration to the end,
\* leaves the broadcast marked sent, whatever recipients failed; and no step
\* issues a send for a broadcast that is marked sent.
BroadcastMarkOnce ==
    [][ \A b \in DOMAIN scheduled_messages :
          /\ ( \/ b \in swept'.broadcast_done
               \/ /\ broadcast_sends'[b] # broadcast_sends[b]
                  /\ b \notin swept'.broadcast_error )
             => scheduled_messages'[b].is_sent = 1
          /\ (scheduled_messages[b] # NoRow /\ scheduled_messages[b].is_sent = 1)
             => /\ broadcast_sends'[b] = broadcast_sends[b]
                /\ scheduled_messages'[b].is_sent = 1 ]_vars

\* C12 witness: a broadcast with a failed recipient is marked sent, a later
\* tick has processed a later broadcast, and the first was not sent again.
BroadcastMarkedDespiteFailure ==
    /\ \A b \in BroadcastIds :
          scheduled_messages[b] # NoRow /\ scheduled_messages[b].is_sent = 1
    /\ scheduled_messages[1].scheduled_time < scheduled_messages[2].scheduled_time
    /\ broadcast_sends[1].failed = 1
    /\ broadcast_sends[1].ok + broadcast_sends[1].failed
          = Cardinality({u \in DOMAIN users : NonBanned(u)})
    /\ broadcast_sends[2].ok > 0

\* Texts that are not a valid hour:minute.
MalformedSendTimes ==
    { <<"2", "5", ":", "9", "9">>,
      <<"2", "4", ":", "0", "0">>,
      <<"1", "2", ":", "6", "0">>,
      <<"9">>,
      <<"0", "9", ":", "0", "0", ":", "0", "0">>,
      <<"a", "b", ":", "c", "d">>,
      <<"-", "1", ":", "3", "0">>,
      <<"1", "2", ":">>,
      <<" ">> }

\* The item's send_time is one of the malformed texts.
Malformed(m) ==
    /\ static_messages[m].day_number >= 1
    /\ static_messages[m].send_time \in MalformedSendTimes

PendingBroadcasts ==
    LET messages == get_pending_scheduled_messages
    IN  {messages[i] : i \in 1..Len(messages)}

\* C20: one bad row never blocks others: a drip tick evaluates every pair of
\* a fetched non-banned user and an item other than the pair at which a
\* Store error was raised; and a broadcast tick in which a Store error was
\* raised while processing one due broadcast still processes (marks sent)
\* the other due broadcasts.
OneBadRowNeverBlocksOthers ==
    [][ /\ DripSweepStep
              => \A p \in EvaluablePairs(FetchedUsers) \ swept'.drip_error :
                    p \in swept'.drip
        /\ (now' = now /\ store_errors' > store_errors)
              => \A b \in PendingBroadcasts \ swept'.broadcast_error :
                    scheduled_messages'[b].is_sent = 1 ]_vars

(***************************************************************************)
(* Properties of the join request ledger.                                  *)
(***************************************************************************)
\* The row of the join request the step handled.
EventKey == <<last_event'.user, last_event'.chat>>

\* The step is a run of on_join_request.
JoinRequestStep == last_event'.kind = "join_request"

\* C13: JoinRequest status only moves pending->approved or pending->denied:
\* under every interleaving of the admin handlers, the bot's auto-approval
\* and inbound join requests, no step other than the handling of a fresh
\* inbound join request of that row changes a row from approved to denied or
\* from denied to approved.
TerminalStatusKept ==
    [][ \A k \in DOMAIN join_requests :
          ( /\ join_requests[k] # NoRow
            /\ \/ /\ join_requests[k].status = "approved"
                  /\ join_requests'[k].status = "denied"
               \/ /\ join_requests[k].status = "denied"
                  /\ join_requests'[k].status = "approved" )
          => (JoinRequestStep /\ EventKey = k) ]_vars

\* C14: when a user reaches Completed in mode after_messages, the Messenger
\* approval is called for every pending row of that user, across all chats;
\* a row becomes approved if its call succeeded and stays pending if it
\* raised; every other row is unchanged.
CompletionApprovesEveryPendingRow ==
    [][ \A u \in DOMAIN user_onboarding_state :
          ( /\ auto_approve_mode = "after_messages"
            /\ ~Completed(u)
            /\ Completed(u)' )
          => \A k \in DOMAIN join_requests :
                IF k \in PendingRequests(join_requests, u)
                THEN /\ k \in last_event'.approvals
                     /\ k \notin last_event'.refused
                           => join_requests'[k].status = "approved"
                     /\ k \in last_event'.refused
                           => join_requests'[k].status = "pending"
                ELSE join_requests'[k] = join_requests[k] ]_vars

\* C14 witness: the completion of user 1 approved the row of one chat while
\* the call for the row of a chat before it raised, and a row of another user
\* is pending.
OneRowApprovedOneRefused ==
    /\ auto_approve_mode = "after_messages"
    /\ Completed(1)
    /\ last_event.user = 1
    /\ last_event.approvals = {<<1, 1>>, <<1, 2>>}
    /\ last_event.refused = {<<1, 1>>}
    /\ join_requests[<<1, 1>>].status = "pending"
    /\ join_requests[<<1, 2>>].status = "approved"
    /\ \E k \in DOMAIN join_requests :
          k[1] # 1 /\ join_requests[k] # NoRow /\ join_requests[k].status = "pending"

\* C15: in mode after_messages the handling of an inbound join request
\* never approves it: the row is pending after it and no approval call is
\* made; with a non-empty active catalog the user is then awaiting the answer
\* to the first question, whatever the Messenger did.
JoinRequestStartsOnboarding ==
    [][ (JoinRequestStep /\ auto_approve_mode = "after_messages")
          => /\ join_requests'[EventKey].status = "pending"
             /\ last_event'.approvals = {}
             /\ get_user_questions # <<>>
                   => \E u \in DOMAIN user_onboarding_state :
                         /\ u = last_event'.user
                         /\ Awaiting(u, get_user_questions[1])' ]_vars

\* C16: in mode immediate the handling of an inbound join request calls the
\* Messenger approval for the row of that user and chat; the row is approved
\* after it if the call succeeded and pending if the call raised, and no
\* exception leaves the handler.
ImmediateApprovalFollowsCall ==
    [][ (JoinRequestStep /\ auto_approve_mode = "immediate")
          => /\ last_event'.approvals = {EventKey}
             /\ EventKey \notin last_event'.refused
                   => join_requests'[EventKey].status = "approved"
             /\ EventKey \in last_event'.refused
                   => join_requests'[EventKey].status = "pending"
             /\ ~last_event'.raised ]_vars

\* C16 witness: the approval call of an immediate-mode join request raised
\* and its row is pending.
ImmediateApprovalRefused ==
    /\ auto_approve_mode = "immediate"
    /\ last_event.kind = "join_request"
    /\ <<last_event.user, last_event.chat>> \in last_event.refused
    /\ join_requests[<<last_event.user, last_event.chat>>].status = "pending"

\* C17: with the auto-approval mode off or unset, a run of a bot handler
\* makes no approval call and leaves every pending row pending.
OffModeLeavesLedgerAlone ==
    [][ (last_event'.kind \in BotEvents /\ auto_approve_mode \in {"off", "unset"})
          => /\ last_event'.approvals = {}
             /\ ~last_event'.approval_step
             /\ \A k \in DOMAIN join_requests :
                   (join_requests[k] # NoRow /\ join_requests[k].status = "pending")
                       => join_requests'[k].status = "pending" ]_vars

\* C17 witness: with the mode unset a user with a pending row has completed
\* onboarding.
CompletedWhilePendingUnset ==
    /\ auto_approve_mode = "unset"
    /\ last_event.kind \in {"text", "button"}
    /\ Completed(last_event.user)
    /\ PendingRequests(join_requests, last_event.user) # {}

\* The failure patterns of the approval calls.
ApprovalFailures == SUBSET {SiteApprove(c) : c \in Chats}

\* C18: auto-approval idempotence: for a user with zero pending rows the
\* approval step, run twice, makes no approval call, meets no failure and
\* leaves the ledger as it is; and a handler run whose approval step found
\* zero pending rows made no call, changed no row and raised nothing.
ApprovalStepIdempotent ==
    [][ /\ \A u \in DOMAIN user_onboarding_state, b1 \in ApprovalFailures,
              b2 \in ApprovalFailures :
              PendingRequests(join_requests, u) = {}
                 => LET once == ApprovePending(Store, u, b1)
                        twice == ApprovePending(once, u, b2)
                    IN  /\ once.requests = join_requests
                        /\ twice.requests = join_requests
                        /\ twice.approvals = {}
                        /\ twice.fails = 0
        /\ ( /\ last_event'.kind \in BotEvents
             /\ last_event'.approval_step
             /\ PendingRequests(join_requests, last_event'.user) = {} )
              => /\ last_event'.approvals = {}
                 /\ join_requests' = join_requests
                 /\ ~last_event'.raised ]_vars

\* C18 witness: in mode after_messages the approval step ran for a second
\* question id of a user who has an approved row and no pending one.
ApprovalStepRanAgain ==
    /\ auto_approve_mode = "after_messages"
    /\ last_event.kind \in {"text", "button"}
    /\ last_event.approval_step
    /\ last_event.approvals = {}
    /\ Cardinality(processed[last_event.user]) >= 2
    /\ PendingRequests(join_requests, last_event.user) = {}
    /\ \E k \in DOMAIN join_requests :
          /\ k[1] = last_event.user
          /\ join_requests[k] # NoRow
          /\ join_requests[k].status = "approved"

(***************************************************************************)
(* Properties of the sweeps under Messenger failures.                      *)
(***************************************************************************)
\* C21: send-failure isolation: in a tick of the drip sweep every due pair
\* the sweep reached gets its send attempt, whichever sends raised; and a
\* broadcast the tick marks sent got one send attempt per fetched non-banned
\* user, whichever of them raised.
SendFailureIsolated ==
    [][ /\ DripSweepStep
              => \A p \in (DuePairs(now) \cap swept'.drip) \ swept'.drip_error :
                    send_ok'[p] + send_failed'[p] = send_ok[p] + send_failed[p] + 1
        /\ \A b \in DOMAIN scheduled_messages :
              ( /\ scheduled_messages[b] # NoRow
                /\ scheduled_messages[b].is_sent = 0
                /\ scheduled_messages'[b].is_sent = 1 )
                 => /\ \A u \in FetchedUsers :
                          NonBanned(u) => <<b, u>> \in swept'.broadcast
                    /\ broadcast_sends'[b].ok + broadcast_sends'[b].failed
                          = broadcast_sends[b].ok + broadcast_sends[b].failed
                               + Cardinality({u \in FetchedUsers : NonBanned(u)}) ]_vars

\* C21 witness: the item's send to the user the sweep takes first raised in
\* its only attempt, and the user after it was sent the item.
SentPastFailedSend ==
    /\ \A u \in SweepUsers : users[u] # NoRow /\ users[u].join_date < RegistryEpoch
    /\ users[1].is_banned = 0
    /\ send_failed[<<2, 1>>] = 1
    /\ send_ok[<<2, 1>>] = 0
    /\ send_ok[<<1, 1>>] = 1
    /\ static_messages_sent = {<<1, 1>>}
    /\ {<<1, 1>>, <<2, 1>>} \subseteq swept.drip

(***************************************************************************)
(* Properties of the delivery ledger and of the "mark as viewed" callback. *)
(***************************************************************************)
\* C22: the DeliveryLedger holds at most one record per (user, content
\* item) pair in every reachable state, the pairs it answers "sent" for are
\* those with a record, and marking a pair that has a record leaves the
\* ledger as it is.
LedgerOneRecordPerPair ==
    /\ \A p \in DOMAIN sent_rows : sent_rows[p] <= 1
    /\ static_messages_sent = {p \in DOMAIN sent_rows : sent_rows[p] > 0}
    /\ \A p \in static_messages_sent :
          mark_static_message_sent(sent_rows, p) = sent_rows

\* C22 witness: a pair was sent twice and marked after each send.
PairMarkedTwice ==
    /\ viewed_calls = {}
    /\ \E p \in static_messages_sent : send_ok[p] = 2

\* C25: under every interleaving of a scheduler tick with "mark as viewed"
\* handlers, and of two such handlers, no (user, content item) pair receives
\* more than one send.
AtMostOneSendPerPair == \A p \in DOMAIN send_ok : send_ok[p] <= 1

\* The step is a step of a "mark as viewed" handler, of the given kind.
ViewedStep(kind) == last_event'.kind = kind /\ now' = now /\ users' = users

\* C29: a "mark as viewed" callback of user u for item m goes on to send an
\* active item of the day of m with a greater id and no DeliveryRecord for
\* u when there is one, and sends and records nothing otherwise; the item it
\* goes on with is sent once and then gets its DeliveryRecord.
ViewedChainsNextItem ==
    [][ /\ \A u \in DOMAIN users, m \in DOMAIN static_messages :
              (ViewedStep("viewed") /\ last_event'.user = u /\ last_event'.item = m)
                 => /\ IF NextMessages(u, m) # {}
                       THEN \E call \in viewed_calls' \ viewed_calls :
                               /\ call.user = u
                               /\ call.next \in NextMessages(u, m)
                               /\ viewed_calls' = viewed_calls \cup {call}
                       ELSE viewed_calls' = viewed_calls
                    /\ send_ok' = send_ok
                    /\ static_messages_sent' = static_messages_sent
        /\ \A p \in DOMAIN send_ok :
              (ViewedStep("viewed_send") /\ p = <<last_event'.user, last_event'.item>>)
                 => /\ send_ok' = [send_ok EXCEPT ![p] = @ + 1]
                    /\ static_messages_sent' = static_messages_sent
        /\ \A p \in DOMAIN send_ok :
              (ViewedStep("viewed_mark") /\ p = <<last_event'.user, last_event'.item>>)
                 => /\ static_messages_sent' = static_messages_sent \cup {p}
                    /\ send_ok' = send_ok ]_vars

(***************************************************************************)
(* Properties of the answers table.                                        *)
(***************************************************************************)
\* The rows of the table for (user, question).
AnswersOf(u, q) ==
    {i \in DOMAIN answer_rows :
        answer_rows[i].user_id = u /\ answer_rows[i].question_id = q}

\* C23: answers are an upsert keyed by (user, question): under every
\* interleaving of the handlers that store an answer the table holds at
\* most one row per (user, question), and the handlers read what the table
\* holds.
AnswerUpsertKeepsOneRow ==
    /\ \A u \in UserIds, q \in QuestionIds : Cardinality(AnswersOf(u, q)) <= 1
    /\ user_answers = RowSet(answer_rows)

(***************************************************************************)
(* Properties of the acquisition code.                                     *)
(***************************************************************************)
\* The link row is an active one.
ActiveLink(row) == row # NoRow /\ row.is_active # 0

\* C24: the acquisition code a user has stored is empty or a code whose
\* link was active when the /start that stored it looked it up; a /start
\* with a code of no active link still upserts the user, stores no code and
\* raises only when a Messenger call fails; no other step writes the code.
AcquisitionCodeFromActiveLink ==
    [][ /\ \A call \in start_calls' \ start_calls :
              call.invite_link = get_invite_link_by_code(call.code)
        /\ \A u \in DOMAIN invite_code :
              invite_code'[u] # invite_code[u]
                 => \E call \in start_calls \ start_calls' :
                       /\ call.user = u
                       /\ call.code = invite_code'[u]
                       /\ ActiveLink(call.invite_link)
        /\ \A call \in start_calls \ start_calls' :
              ~ActiveLink(call.invite_link)
                 => /\ users'[call.user] # NoRow
                    /\ invite_code'[call.user] = invite_code[call.user]
                    /\ last_event'.kind = "cmd_start"
                    /\ last_event'.raised => failures' > failures ]_vars

\* C24 witness: a /start stored the code of a link that has been deleted
\* since.
CodeOutlivesLink ==
    \E u \in DOMAIN invite_code :
        /\ users[u] # NoRow
        /\ invite_code[u] \in Codes
        /\ get_invite_link_by_code(invite_code[u]) = NoRow
        /\ start_calls = {}

(***************************************************************************)
(* Properties of the onboarding engine under stray events.                 *)
(***************************************************************************)
\* The user has an answer stored for every active question.
AnsweredEveryActiveQuestion(u) ==
    \A q \in ActiveQuestionIds :
        \E r \in user_answers : r.user_id = u /\ r.question_id = q

\* C26: in mode after_messages a handler calls approveJoinRequest for a
\* user only when the user then has an answer for every active question,
\* and never on a button callback whose question id is not the one the user
\* was waiting on.
ApprovalOnlyAfterEveryAnswer ==
    [][ \A u \in DOMAIN user_onboarding_state :
          ( /\ auto_approve_mode = "after_messages"
            /\ last_event'.user = u
            /\ last_event'.kind \in {"text", "button"}
            /\ last_event'.approvals # {} )
             => /\ AnsweredEveryActiveQuestion(u)'
                /\ Awaiting(u, last_event'.question_id) ]_vars

\* The active questions that follow question q in the asking order: a
\* greater order_number, or the same and a greater id.
Following(q) ==
    {n \in ActiveQuestionIds :
        \/ user_questions[n].order_number > user_questions[q].order_number
        \/ /\ user_questions[n].order_number = user_questions[q].order_number
           /\ n > q}

\* The handler took an answer to question q from user u while u was waiting
\* on q, and no Messenger call failed.
AcceptedAnswer(u, q) ==
    /\ last_event'.kind \in {"text", "button"}
    /\ last_event'.user = u
    /\ last_event'.question_id = q
    /\ Awaiting(u, q)
    /\ failures' = failures

\* C27: an accepted answer to the current question q moves the user on to
\* the first active question after q in the asking order whenever there is
\* one, also when q itself is no longer active, and completes the
\* onboarding only when no active question follows q.
AnswerAdvancesToNextActive ==
    [][ \A u \in DOMAIN user_onboarding_state, q \in QuestionIds :
          AcceptedAnswer(u, q)
             => IF Following(q) = {}
                THEN user_onboarding_state'[u].completed
                ELSE /\ ~user_onboarding_state'[u].completed
                     /\ user_onboarding_state'[u].current_question_id
                           = SortByOrderNumber(Following(q))[1] ]_vars

\* The user is waiting for the answer to a question of type text.
AwaitingText(u) ==
    \E q \in QuestionIds :
        /\ Awaiting(u, q)
        /\ user_questions[q] # NoRow
        /\ user_questions[q].question_type = "text"

\* C28: a text message is an onboarding answer only while the user is
\* waiting on a question of type text; from a user who has not started, who
\* is waiting on a question with buttons, or who has completed, it writes no
\* answer, leaves the onboarding state as it is and goes to the menu.
TextAnswersOnlyWhileAwaiting ==
    [][ \A u \in DOMAIN user_onboarding_state :
          ( /\ last_event'.kind = "text"
            /\ last_event'.user = u
            /\ ~AwaitingText(u) )
             => /\ user_answers' = user_answers
                /\ user_onboarding_state' = user_onboarding_state
                /\ last_event'.question_id = 0 ]_vars

(***************************************************************************)
(* Properties of approve-all and deny-all.                                 *)
(***************************************************************************)
\* C30: when approve-all or deny-all returns after a run in which every
\* Messenger call succeeded, no row of the ledger is pending, whatever the
\* number of rows that were pending when it started.
BulkLeavesNoPendingRow ==
    [][ \A call \in bulk_calls :
          (bulk_calls' = {} /\ call.fail_count = 0)
             => \A k \in DOMAIN join_requests : join_requests'[k].status # "pending" ]_vars


\* The recipients of a broadcast pass run now: the fetched users whose ban
\* flag is unset.
Recipients == {u \in FetchedUsers : users[u].is_banned = 0}

\* C31: a broadcast is marked sent only after the full recipient pass: the
\* step that sets a broadcast's flag attempted one send for every recipient
\* of the fetched list, each once (a failed one is counted, not retried);
\* a step in which the process stops mid-pass leaves the flag unset and the
\* broadcast pending for the next tick.
MarkedOnlyAfterFullPass ==
    [][ \A b \in DOMAIN scheduled_messages :
          /\ ( /\ scheduled_messages[b] # NoRow
               /\ scheduled_messages[b].is_sent = 0
               /\ scheduled_messages'[b].is_sent = 1 )
             => /\ \A u \in Recipients : <<b, u>> \in swept'.broadcast
                /\ (broadcast_sends'[b].ok + broadcast_sends'[b].failed)
                     - (broadcast_sends[b].ok + broadcast_sends[b].failed)
                      = Cardinality(Recipients)
          /\ (crashes' > crashes /\ b \in PendingBroadcasts)
             => /\ scheduled_messages'[b].is_sent = 0
                /\ b \in PendingBroadcasts' ]_vars

\* C31 witness: the process stopped after one of two recipients, the next
\* tick sent the broadcast again to both and marked it.
BroadcastResentAfterStop ==
    /\ crashes = 1
    /\ scheduled_messages[1].is_sent = 1
    /\ Cardinality(Recipients) = 2
    /\ broadcast_sends[1].ok + broadcast_sends[1].failed = 3


\* C32: no content item is sent to a user whose ban flag is set at the
\* moment of the send, by the drip sweep or by the chained delivery of
\* "mark as viewed": a step that issues a send for a pair does so for a user
\* whose ban flag is unset.
NoSendToBannedUser ==
    [][ \A p \in DOMAIN send_ok :
          (send_ok'[p] + send_failed'[p] > send_ok[p] + send_failed[p])
             => users[p[1]].is_banned = 0 ]_vars


\* The pairs whose window predicate holds now for a sweep.
DueNow == DuePairsOf(FetchedUsers, ParsedSendTimes, static_messages_sent, now)

BanStep(u) ==
    /\ users' = [users EXCEPT ![u].is_banned = 1]
    /\ invite_code' = invite_code
    /\ last_event' = ViewedEvent("ban_user", u, 0)

\* C34: upserting an already-known user leaves the join timestamp, the ban
\* flag and the stored acquisition code unchanged: no step of /start, with or
\* without a code, and no channel-join event changes them in a row that
\* exists; the one step that writes an existing row is the admin's ban.
UpsertKeepsKnownUser ==
    [][ \A u \in DOMAIN users :
          users[u] # NoRow
             => \/ /\ users'[u] = users[u]
                   /\ invite_code'[u] = invite_code[u]
                \/ BanStep(u) ]_vars

\* C34 witness: a banned user who arrived through a link a while ago has
\* sent /start again.
KnownUserStartedAgain ==
    \E u \in DOMAIN users :
        /\ users[u] # NoRow
        /\ users[u].is_banned = 1
        /\ users[u].join_date < now
        /\ invite_code[u] # NoCode
        /\ last_event.kind = "cmd_start"
        /\ last_event.user = u


\* C35: JoinRequest rows are unique per (user, chat); a join request written
\* for a pair that has a row, whatever its status, leaves the row pending
\* with no processed timestamp and reports isNew = false; one written for a
\* pair without row creates a pending row and reports isNew = true.
JoinRequestUpsert ==
    [][ /\ \A i, j \in DOMAIN request_rows' :
              ( /\ request_rows'[i].user_id = request_rows'[j].user_id
                /\ request_rows'[i].chat_id = request_rows'[j].chat_id ) => i = j
        /\ \A call \in request_calls \ request_calls' :
              /\ \E i \in DOMAIN request_rows' :
                    /\ request_rows'[i].user_id = call.user_id
                    /\ request_rows'[i].chat_id = call.chat_id
                    /\ request_rows'[i].status = "pending"
                    /\ request_rows'[i].processed_date = None
              /\ Len(request_rows')
                    = IF request_exists(request_rows, call.user_id, call.chat_id)
                      THEN Len(request_rows) ELSE Len(request_rows) + 1
              /\ is_new'.is_new
                    = ~request_exists(request_rows, call.user_id, call.chat_id)
      ]_vars


\* C36: with no active question, a handler that would start onboarding (the
\* join request handler in mode after_messages, /start) changes no onboarding
\* row, sends no question and reports that onboarding did not start; /start
\* makes one Messenger call, the menu.
EmptyCatalogStartsNothing ==
    [][ ( /\ get_user_questions = <<>>
          /\ last_event'.kind \in {"cmd_start", "join_request"} )
        => /\ user_onboarding_state' = user_onboarding_state
           /\ questions_sent' = questions_sent
           /\ last_event'.started = FALSE
           /\ (last_event'.kind = "cmd_start")
                 => failures' = failures + IF last_event'.raised THEN 1 ELSE 0
      ]_vars

\* C36 witness: a user who has an onboarding row filed a join request in
\* mode after_messages when no question was active, and the notice went out.
JoinRequestWithEmptyCatalog ==
    /\ get_user_questions = <<>>
    /\ auto_approve_mode = "after_messages"
    /\ last_event.kind = "join_request"
    /\ ~last_event.raised
    /\ ~last_event.started
    /\ user_onboarding_state[last_event.user] # NoRow


\* The item's kind is not text and its media handle is absent.
MediaMissing(item) ==
    normalize_media_type(item.media_type) # "text" /\ item.media_file_id = ""

\* C37: for a due item whose kind is not text and whose media handle is
\* absent the scheduler makes no media send: exactly one text-only send when
\* the item has text, no send when it has none, and in both cases it writes
\* the DeliveryRecord.
MissingMediaFallsBackToText ==
    [][ DripSweepStep
        => \A p \in DOMAIN media_log' :
              MediaMissing(item_media[p[2]])
                 => /\ media_log'[p].calls
                         = IF item_media[p[2]].text # "" THEN <<send_message>>
                           ELSE <<>>
                    /\ p \in static_messages_sent' ]_vars

\* The same for the pairs whose Messenger call did not raise.
MissingMediaFallsBackUnlessRaised ==
    [][ DripSweepStep
        => \A p \in DOMAIN media_log' :
              (MediaMissing(item_media[p[2]]) /\ ~media_log'[p].raised)
                 => /\ media_log'[p].calls
                         = IF item_media[p[2]].text # "" THEN <<send_message>>
                           ELSE <<>>
                    /\ p \in static_messages_sent' ]_vars


\* C38: callback payload round trip: for every question id and every
\* non-empty option value, underscores included, decoding the payload built
\* for the option's button yields the same id and the same value.
CallbackRoundTrip ==
    (callback # NoRow /\ callback.pressed)
        => /\ callback.parsed_id = callback.question_id
           /\ callback.answer_value = callback.option

\* C38 witness: the button of a three-digit question id and an option with
\* two underscores was pressed and decoded.
UnderscoreOptionDecoded ==
    /\ callback # NoRow
    /\ callback.pressed
    /\ callback.question_id >= 100
    /\ Cardinality({i \in 1..Len(callback.option) : callback.option[i] = "_"}) = 2


\* The step is a verify_session call.
VerifyStep == verified' # verified

\* A token that was issued and has no row: logged out or found expired.
Deleted(t) == t \in 1..issued /\ sessions[t] = NoRow

\* The row of a session found expired is deleted, and a deleted token is
\* never accepted and never gets a row again.
DeletedSessionStaysOut ==
    [][ /\ VerifyStep
           => /\ verified'.result => sessions[verified'.session_token] # NoRow
              /\ ~verified'.result => sessions'[verified'.session_token] = NoRow
        /\ \A t \in DOMAIN sessions : Deleted(t) => sessions'[t] = NoRow ]_vars

\* C39: a session token is accepted only if a session row exists that was
\* created at most 24 hours earlier; after logout with the token, or once a
\* check found it expired, the row is deleted and the token is never
\* accepted again.
SessionAcceptedWithin24Hours ==
    [][ /\ VerifyStep
           => /\ verified'.result
                    => /\ sessions[verified'.session_token] # NoRow
                       /\ now - sessions[verified'.session_token].created_at
                             <= SessionExpiry
              /\ ~verified'.result => sessions'[verified'.session_token] = NoRow
        /\ \A t \in DOMAIN sessions : Deleted(t) => sessions'[t] = NoRow ]_vars

====
